---- MODULE Spec2Model ----
(***************************************************************************)
(* A model of the McBopomofo key handler (KeyHandler.cpp / KeyHandler.h):  *)
(* the reading buffer, the reading grid with its nodes, the walker, the    *)
(* user override model and the key-driven state machine on top of them.    *)
(*                                                                         *)
(* A std::string is a sequence of code points; its length() is the number  *)
(* of UTF-8 bytes (U8Length).  A reading is an atom with a fixed byte      *)
(* length (ReadingBytes); a node key is the sequence of the readings it    *)
(* joins with kJoinSeparator.  Scores are in millionths (ScoreUnit), so    *)
(* that kEpsilon is 1.                                                     *)
(***************************************************************************)
EXTENDS Integers, Sequences, FiniteSets, TLC

VARIABLES
  reading,      \* reading_: the Bopomofo reading buffer [c, v, t]
  readings,     \* builder_->readings()
  cursor,       \* builder_->cursorIndex()
  nodes,        \* builder_->grid(): <<location, spanningLength>> -> node
  walked,       \* walkedNodes_: anchors [loc, len] in forward order
  uom,          \* userOverrideModel_: observations, most recent first
  selAfter,     \* selectPhraseAfterCursorAsCandidate_
  moveAfter,    \* moveCursorAfterSelection_
  state,        \* the engine's state_: the InputState passed to handle()
  emitted,      \* the states given to stateCallback during the last call
  errors,       \* the errorCallback invocations during the last call
  ret,          \* what the last call returned: "true", "false", "void"
  op,           \* the last call: [name, key]
  added,        \* the addUserPhrase calls of the last call
  observed,     \* the observe() calls of the last call
  pinned,       \* the fixNodeSelectedCandidate calls of the last call
  steps         \* calls made so far

vars == <<reading, readings, cursor, nodes, walked, uom, selAfter, moveAfter,
          state, emitted, errors, ret, op, added, observed, pinned, steps>>

(***************************************************************************)
(* Program constants.                                                      *)
(***************************************************************************)
kMinValidMarkingReadingCount == 2
kMaxValidMarkingReadingCount == 6
kUserOverrideModelCapacity == 500

\* A floor of -100.0, below every score of the model.
kNoFloor == -100 * 1000000

kNoOverrideThreshold == -8000000
kEpsilon == 1
kComposingBufferSize == 10
kSelectedCandidateScore == 99000000

(***************************************************************************)
(* Bounds of the model.                                                    *)
(***************************************************************************)
MaxSteps == 2

(***************************************************************************)
(* Sequence helpers.                                                       *)
(***************************************************************************)
Min(a, b) == IF a < b THEN a ELSE b

Take(s, n) == SubSeq(s, 1, Min(n, Len(s)))

Drop(s, n) == SubSeq(s, Min(n, Len(s)) + 1, Len(s))

RECURSIVE Reverse(_)
Reverse(s) == IF s = <<>> THEN <<>> ELSE Append(Reverse(Tail(s)), Head(s))

RECURSIVE Concat(_)
Concat(ss) == IF ss = <<>> THEN <<>> ELSE Head(ss) \o Concat(Tail(ss))

(***************************************************************************)
(* Strings.  Code points and the parts of a reading are atoms; U8Bytes     *)
(* gives the UTF-8 length of each.  Bopomofo letters and CJK code points   *)
(* take 3 bytes, the tone mark 2, ASCII text one byte per character.       *)
(***************************************************************************)
U8Bytes(a) ==
  CASE a = "" -> 0
    [] a \in {"<", ",", "~", "grave", "space"} -> 1
    [] a = "T4" -> 2
    [] a = "Standard_" -> 9
    [] a = "_punctuation_" -> 13
    [] a = "_punctuation_list" -> 17
    [] OTHER -> 3

RECURSIVE U8Length(_)
U8Length(str) ==
  IF str = <<>> THEN 0 ELSE U8Bytes(Head(str)) + U8Length(Tail(str))

\* std::string::substr(0, n): the code points of the first n bytes.
RECURSIVE U8Prefix(_, _)
U8Prefix(str, n) ==
  IF str = <<>> \/ n < U8Bytes(Head(str)) THEN <<>>
  ELSE <<Head(str)>> \o U8Prefix(Tail(str), n - U8Bytes(Head(str)))

\* std::string::substr(n, length() - n).
RECURSIVE U8Suffix(_, _)
U8Suffix(str, n) ==
  IF str = <<>> \/ n <= 0 THEN str
  ELSE U8Suffix(Tail(str), n - U8Bytes(Head(str)))

\* ToU32 followed by a cut to cpLen code points and ToU8.
U32Prefix(str, cpLen) == Take(str, cpLen)

(***************************************************************************)
(* Readings.  A reading is <<consonant, vowel, tone>> for a syllable and   *)
(* <<prefix, layout, character>> for a punctuation key.                    *)
(***************************************************************************)
NoReading == <<"", "", "">>

ReadingBytes(r) == U8Bytes(r[1]) + U8Bytes(r[2]) + U8Bytes(r[3])

SH == <<"SH", "", "">>
SH4 == <<"SH", "", "T4">>
SHU4 == <<"SH", "U", "T4">>
kPunctuationListKey == <<"_punctuation_list", "", "">>

\* kPunctuationKeyPrefix + layout name + "_" + character
LayoutPunctuationKey(chr) == <<"_punctuation_", "Standard_", chr>>

\* kPunctuationKeyPrefix + character
GenericPunctuationKey(chr) == <<"_punctuation_", "", chr>>

\* key().length(): the readings joined by kJoinSeparator, in bytes.
RECURSIVE KeyBytes(_)
KeyBytes(key) ==
  IF key = <<>> THEN 0
  ELSE ReadingBytes(Head(key))
       + (IF Tail(key) = <<>> THEN 0 ELSE 1 + KeyBytes(Tail(key)))

(***************************************************************************)
(* The language model: the tables behind McBopomofoLM and its lookup.     *)
(***************************************************************************)
U(v, s) == [value |-> v, score |-> s]

PrimaryTable ==
  <<
    [key |-> <<SH4>>, rows |-> <<U(<<"shi">>, -3000000), U(<<"si">>, -4000000),
                                 U(<<"sx">>, -5000000), U(<<"so">>, -9000000)>>],
    [key |-> <<SH>>, rows |-> <<U(<<"ha">>, -5000000), U(<<"hb">>, -6000000)>>],
    [key |-> <<SHU4>>, rows |-> <<U(<<"ua">>, -5000000)>>],
    [key |-> <<SH4, SH4>>, rows |-> <<U(<<"si", "si">>, -5000000)>>],
    [key |-> <<SH, SHU4>>, rows |-> <<U(<<"hu">>, -7000000)>>],
    [key |-> <<SH, SH, SH>>, rows |-> <<U(<<"ha", "ha", "ha">>, -9000000)>>],
    [key |-> <<kPunctuationListKey>>,
     rows |-> <<U(<<"pc">>, 0), U(<<"<">>, 0)>>],
    [key |-> <<LayoutPunctuationKey("<")>>, rows |-> <<U(<<"pc">>, 0)>>],
    [key |-> <<GenericPunctuationKey(",")>>, rows |-> <<U(<<"pc">>, 0)>>],
    [key |-> <<GenericPunctuationKey("grave")>>, rows |-> <<U(<<"pc">>, 0)>>]
  >>

UserPhrasesTable ==
  << [key |-> <<SH4, SH>>, rows |-> <<U(<<"shi", "ha">>, 0)>>] >>

ExcludedTable ==
  << [key |-> <<SH4>>, rows |-> <<U(<<"sx">>, 0)>>] >>

PhraseReplacementEnabled == TRUE

PhraseReplacementMap(v) == IF v = <<"hb">> THEN <<"ha">> ELSE v

ExternalConverterEnabled == FALSE

ExternalConverter(v) == IF v = <<"ha">> THEN <<"hc">> ELSE v

RECURSIVE RowsOf(_, _)
RowsOf(table, key) ==
  IF table = <<>> THEN <<>>
  ELSE IF Head(table).key = key THEN Head(table).rows
  ELSE RowsOf(Tail(table), key)

SeqValues(rows) == {rows[i].value : i \in 1..Len(rows)}

\* The members of McBopomofoLM that a lookup reads.
McBopomofoLM ==
  [m_languageModel |-> PrimaryTable,
   m_userPhrases |-> UserPhrasesTable,
   m_excludedPhrases |-> ExcludedTable,
   m_phraseReplacementEnabled |-> PhraseReplacementEnabled,
   m_externalConverterEnabled |-> ExternalConverterEnabled]

\* filterAndTransformUnigrams: drop excluded, replace, convert, drop duplicates.
RECURSIVE FilterAndTransformUnigrams(_, _, _, _, _)
FilterAndTransformUnigrams(unigrams, excludedValues, insertedValues, replaces, converts) ==
  IF unigrams = <<>> THEN <<>>
  ELSE LET u == Head(unigrams)
           v1 == IF replaces
                 THEN PhraseReplacementMap(u.value) ELSE u.value
           v2 == IF converts THEN ExternalConverter(v1) ELSE v1
       IN IF u.value \in excludedValues
          THEN FilterAndTransformUnigrams(Tail(unigrams), excludedValues,
                                          insertedValues, replaces,
                                          converts)
          ELSE IF v2 \in insertedValues
          THEN FilterAndTransformUnigrams(Tail(unigrams), excludedValues,
                                          insertedValues, replaces,
                                          converts)
          ELSE <<U(v2, u.score)>>
               \o FilterAndTransformUnigrams(Tail(unigrams), excludedValues,
                                             insertedValues \cup {v2},
                                             replaces,
                                             converts)

\* A lookup that filters the user phrases and the primary model each
\* with inserted values of its own.
UnigramsFilteredApart(lm, key) ==
  LET Filtered(unigrams) ==
        FilterAndTransformUnigrams(
          unigrams, SeqValues(RowsOf(lm.m_excludedPhrases, key)), {},
          lm.m_phraseReplacementEnabled, lm.m_externalConverterEnabled)
  IN Filtered(RowsOf(lm.m_userPhrases, key))
       \o Filtered(RowsOf(lm.m_languageModel, key))

\* McBopomofoLM::unigramsForKey on the model lm: user phrases first, then
\* the primary model.
UnigramsOf(lm, key) ==
  FilterAndTransformUnigrams(
    RowsOf(lm.m_userPhrases, key) \o RowsOf(lm.m_languageModel, key),
    SeqValues(RowsOf(lm.m_excludedPhrases, key)), {},
    lm.m_phraseReplacementEnabled, lm.m_externalConverterEnabled)

\* McBopomofoLM::unigramsForKey on the model the key handler is given.
UnigramsForKey(key) == UnigramsOf(McBopomofoLM, key)

HasUnigramsForKey(key) == UnigramsForKey(key) # <<>>

RECURSIVE LongestKey(_)
LongestKey(table) ==
  IF table = <<>> THEN 0
  ELSE LET n == Len(Head(table).key)
           m == LongestKey(Tail(table))
       IN IF n > m THEN n ELSE m

\* The longest key of the tables, in readings: no node spans more.
MaxKeyReadings == LongestKey(PrimaryTable \o UserPhrasesTable)

(***************************************************************************)
(* The reading buffer (BopomofoReadingBuffer) under the Standard layout.   *)
(***************************************************************************)
PhoneticKeys == {"g", "j", "4"}

IsValidKey(k) == k \in PhoneticKeys

CombineKey(rd, k) ==
  CASE k = "g" -> <<"SH", rd[2], rd[3]>>
    [] k = "j" -> <<rd[1], "U", rd[3]>>
    [] k = "4" -> <<rd[1], rd[2], "T4">>
    [] OTHER -> rd

HasToneMarker(rd) == rd[3] # ""

IsEmptyReading(rd) == rd = NoReading

\* backspace(): drops the last component present.
BackspaceReading(rd) ==
  IF rd[3] # "" THEN <<rd[1], rd[2], "">>
  ELSE IF rd[2] # "" THEN <<rd[1], "", "">>
  ELSE NoReading

\* composedString(): the components present, as displayed.
ReadingComposedString(rd) == SelectSeq(rd, LAMBDA a : a # "")

(***************************************************************************)
(* Nodes.  A node holds its key, the unigrams of its key as they were when *)
(* it was built, the index of its selected candidate and its score.        *)
(***************************************************************************)
Candidates(n) == n.candidates

RECURSIVE HighestIndex(_, _, _)
HighestIndex(unigrams, i, best) ==
  IF i > Len(unigrams) THEN best
  ELSE HighestIndex(unigrams, i + 1,
                    IF unigrams[i].score > unigrams[best].score THEN i ELSE best)

HighestUnigramScore(n) ==
  Candidates(n)[HighestIndex(Candidates(n), 1, 1)].score

NodeWith(key, unigrams, top) ==
  [key |-> key, candidates |-> unigrams, sel |-> top,
   score |-> unigrams[top].score]

NodeOver(key, unigrams) == NodeWith(key, unigrams, HighestIndex(unigrams, 1, 1))

NewNode(key) == NodeOver(key, UnigramsForKey(key))

CurrentValue(n) == Candidates(n)[n.sel].value

IndexOfValue(n, value) ==
  LET us == Candidates(n)
      hits == {i \in 1..Len(us) : us[i].value = value}
  IN IF hits = {} THEN 0 ELSE CHOOSE i \in hits : \A j \in hits : i <= j

ScoreForCandidate(n, value) ==
  LET i == IndexOfValue(n, value) IN IF i = 0 THEN 0 ELSE Candidates(n)[i].score

ResetCandidate(n) ==
  [n EXCEPT !.sel = HighestIndex(Candidates(n), 1, 1),
            !.score = HighestUnigramScore(n)]

SelectCandidateAtIndex(n, i) ==
  [n EXCEPT !.sel = i, !.score = kSelectedCandidateScore]

SelectFloatingCandidateAtIndex(n, i, score) ==
  [n EXCEPT !.sel = i, !.score = score]

(***************************************************************************)
(* The grid under the reading builder: the nodes over the readings.        *)
(***************************************************************************)
NodeIds(rs) ==
  {id \in (0..(Len(rs) - 1)) \X (1..MaxKeyReadings) :
     /\ id[1] + id[2] <= Len(rs)
     /\ HasUnigramsForKey(SubSeq(rs, id[1] + 1, id[1] + id[2]))}

FreshNodes(rs) ==
  [id \in NodeIds(rs) |-> NewNode(SubSeq(rs, id[1] + 1, id[1] + id[2]))]

\* insertReadingAtCursor: the readings split at p, one slot inserted, the
\* nodes crossing p destroyed, the nodes from p on moved by one, and the
\* nodes over the new slot built.
InsertedReadings(rs, p, r) == Take(rs, p) \o <<r>> \o Drop(rs, p)

InsertedNodes(rs, nd, p, r) ==
  LET rs2 == InsertedReadings(rs, p, r)
      q == Min(p, Len(rs))
  IN [id \in NodeIds(rs2) |->
        IF id[1] + id[2] <= q /\ id \in DOMAIN nd THEN nd[id]
        ELSE IF id[1] >= q + 1 /\ <<id[1] - 1, id[2]>> \in DOMAIN nd
        THEN nd[<<id[1] - 1, id[2]>>]
        ELSE NewNode(SubSeq(rs2, id[1] + 1, id[1] + id[2]))]

\* deleteReadingBeforeCursor / deleteReadingAfterCursor: slot p (from 0)
\* removed, the nodes over it destroyed, the nodes after it moved, and the
\* nodes across the joint built.
DeletedReadings(rs, p) == Take(rs, p) \o Drop(rs, p + 1)

DeletedNodes(rs, nd, p) ==
  LET rs2 == DeletedReadings(rs, p)
  IN IF p >= Len(rs) THEN nd
     ELSE [id \in NodeIds(rs2) |->
             IF id[1] + id[2] <= p /\ id \in DOMAIN nd THEN nd[id]
             ELSE IF id[1] >= p /\ <<id[1] + 1, id[2]>> \in DOMAIN nd
             THEN nd[<<id[1] + 1, id[2]>>]
             ELSE NewNode(SubSeq(rs2, id[1] + 1, id[1] + id[2]))]

\* removeHeadReadings(count): refused when count exceeds the length; the
\* leading slots and the nodes starting in them go, the rest moves up.
\* The cursor is left to the caller.
RemovedHeadReadings(rs, count) == IF count > Len(rs) THEN rs ELSE Drop(rs, count)

RemovedHeadNodes(rs, nd, count) ==
  IF count > Len(rs) THEN nd
  ELSE [id \in NodeIds(Drop(rs, count)) |->
          IF <<id[1] + count, id[2]>> \in DOMAIN nd
          THEN nd[<<id[1] + count, id[2]>>]
          ELSE NewNode(SubSeq(Drop(rs, count), id[1] + 1, id[1] + id[2]))]

\* The grid's enumeration of its nodes: by location, then by length.
IdOrder(width) ==
  [k \in 1..(width * MaxKeyReadings) |->
     <<(k - 1) \div MaxKeyReadings, ((k - 1) % MaxKeyReadings) + 1>>]

\* nodesCrossingOrEndingAt(location): the nodes over slot location - 1.
NodesCrossingOrEndingAt(nd, width, location) ==
  IF width = 0 \/ location > width THEN <<>>
  ELSE SelectSeq(IdOrder(width),
                 LAMBDA id : /\ id \in DOMAIN nd
                             /\ id[1] < location
                             /\ location <= id[1] + id[2])

\* fixNodeSelectedCandidate: every node at the location is reset, and each
\* one holding the value gets it selected and fixed.
RECURSIVE FixNodes(_, _, _)
FixNodes(nd, ids, value) ==
  IF ids = <<>> THEN nd
  ELSE LET id == Head(ids)
           i == IndexOfValue(nd[id], value)
           n1 == ResetCandidate(nd[id])
           n2 == IF i = 0 THEN n1 ELSE SelectCandidateAtIndex(n1, i)
       IN FixNodes([nd EXCEPT ![id] = n2], Tail(ids), value)

FixNodeSelectedCandidate(nd, width, location, value) ==
  FixNodes(nd, NodesCrossingOrEndingAt(nd, width, location), value)

\* The anchor fixNodeSelectedCandidate returns: the last node holding the
\* value, or no node (<<>>).
FixedNodeAnchor(nd, width, location, value) ==
  LET hits == SelectSeq(NodesCrossingOrEndingAt(nd, width, location),
                        LAMBDA id : IndexOfValue(nd[id], value) # 0)
  IN IF hits = <<>> THEN <<>> ELSE <<hits[Len(hits)]>>

\* overrideNodeScoreForSelectedCandidate: each node at the location holding
\* the value gets it selected with the given score.
RECURSIVE OverrideNodes(_, _, _, _)
OverrideNodes(nd, ids, value, score) ==
  IF ids = <<>> THEN nd
  ELSE LET id == Head(ids)
           i == IndexOfValue(nd[id], value)
           n2 == IF i = 0 THEN nd[id]
                 ELSE SelectFloatingCandidateAtIndex(nd[id], i, score)
       IN OverrideNodes([nd EXCEPT ![id] = n2], Tail(ids), value, score)

OverrideNodeScoreForSelectedCandidate(nd, width, location, value, score) ==
  OverrideNodes(nd, NodesCrossingOrEndingAt(nd, width, location), value, score)

(***************************************************************************)
(* The walker.  best[j + 1] is the best way to cover [0, j): its score and *)
(* its nodes from the end backwards.  Among the nodes ending at j the      *)
(* first found (the longest) wins a tie.                                   *)
(***************************************************************************)
Anchor(loc, len) == [loc |-> loc, len |-> len]

NoPath == [ok |-> FALSE, score |-> 0, path |-> <<>>]

RECURSIVE PickBest(_, _, _, _, _)
PickBest(nd, j, i, best, cur) ==
  IF i >= j THEN cur
  ELSE LET id == <<i, j - i>>
           prev == best[i + 1]
           cand == [ok |-> TRUE, score |-> nd[id].score + prev.score,
                    path |-> <<Anchor(i, j - i)>> \o prev.path]
       IN IF id \in DOMAIN nd /\ prev.ok /\ (~cur.ok \/ cand.score > cur.score)
          THEN PickBest(nd, j, i + 1, best, cand)
          ELSE PickBest(nd, j, i + 1, best, cur)

RECURSIVE WalkTable(_, _, _, _)
WalkTable(nd, width, j, best) ==
  IF j > width THEN best
  ELSE WalkTable(nd, width, j + 1,
                 Append(best,
                        PickBest(nd, j, IF j > MaxKeyReadings
                                        THEN j - MaxKeyReadings ELSE 0,
                                 best, NoPath)))

\* Walker::reverseWalk(location): the best path, last node first.
ReverseWalk(nd, width) ==
  IF width = 0 THEN <<>>
  ELSE WalkTable(nd, width, 1,
                 <<[ok |-> TRUE, score |-> 0, path |-> <<>>]>>)[width + 1].path

\* A walk left in the walker's order, the last node first.
WalkNotReversed(nd, width) == ReverseWalk(nd, width)

\* KeyHandler::walk: the reverse walk, reversed.
Walk(nd, width) == Reverse(ReverseWalk(nd, width))

(***************************************************************************)
(* The user override model: observations keyed by the walked context at a  *)
(* position, most recently used first, at most kUserOverrideModelCapacity. *)
(***************************************************************************)
RECURSIVE WalkedIndexAt(_, _, _, _)
WalkedIndexAt(wk, i, acc, position) ==
  IF i > Len(wk) THEN 0
  ELSE IF acc + wk[i].len >= position THEN i
  ELSE WalkedIndexAt(wk, i + 1, acc + wk[i].len, position)

NodeOf(nd, a) == nd[<<a.loc, a.len>>]

\* The context of a position: the key of the walked node over it and the
\* key and value of the walked node before that one; <<>> when there is none.
Context(wk, nd, position) ==
  LET i == IF position = 0 THEN 0 ELSE WalkedIndexAt(wk, 1, 0, position)
  IN IF i = 0 THEN <<>>
     ELSE <<[cur |-> NodeOf(nd, wk[i]).key,
             prev |-> IF i = 1 THEN <<>>
                      ELSE <<NodeOf(nd, wk[i - 1]).key,
                             CurrentValue(NodeOf(nd, wk[i - 1]))>>]>>

Observe(um, ctx, value) ==
  IF ctx = <<>> THEN um
  ELSE Take(<<[ctx |-> ctx[1], value |-> value]>>
            \o SelectSeq(um, LAMBDA o : o.ctx # ctx[1]),
            kUserOverrideModelCapacity)

\* suggest(): the value observed for the context, or nothing (<<>>): the
\* time passed since the observation decides, and the clock is an input.
Suggestions(um, ctx) ==
  {<<>>} \cup
  (IF ctx = <<>> THEN {}
   ELSE {<<um[i].value>> : i \in {j \in 1..Len(um) : um[j].ctx = ctx[1]}})

(***************************************************************************)
(* Input states.                                                           *)
(***************************************************************************)
NoTooltip ==
  [kind |-> "", prev |-> NoReading, next |-> NoReading, marked |-> <<>>,
   syllables |-> <<>>, status |-> ""]

EmptyState ==
  [tag |-> "Empty", composingBuffer |-> <<>>, cursorIndex |-> 0,
   tooltip |-> NoTooltip, evictedText |-> <<>>, candidates |-> <<>>,
   markStartGridCursorIndex |-> 0, head |-> <<>>, markedText |-> <<>>,
   tail |-> <<>>, reading |-> <<>>, acceptable |-> FALSE, text |-> <<>>]

EmptyIgnoringPreviousState == [EmptyState EXCEPT !.tag = "EmptyIgnoringPrevious"]

CommittingState(text) == [EmptyState EXCEPT !.tag = "Committing", !.text = text]

IsNotEmptyState(st) == st.tag \in {"Inputting", "ChoosingCandidate", "Marking"}

(***************************************************************************)
(* KeyHandler: building the states.                                        *)
(***************************************************************************)
\* The loop of getComposedString over the walked nodes.
RECURSIVE ComposedLoop(_, _, _, _, _, _)
ComposedLoop(rs, nd, wk, builderCursor, i, acc) ==
  IF i > Len(wk) THEN acc
  ELSE
    LET value == CurrentValue(NodeOf(nd, wk[i]))
        spanningLength == wk[i].len
        composed == acc.composed \o value
        distance == builderCursor - acc.runningCursor
        cpLen == Min(distance, Len(value))
        actualValue == U32Prefix(value, cpLen)
    IN IF acc.runningCursor = builderCursor
       THEN ComposedLoop(rs, nd, wk, builderCursor, i + 1,
                         [acc EXCEPT !.composed = composed])
       ELSE IF acc.runningCursor + spanningLength <= builderCursor
       THEN ComposedLoop(rs, nd, wk, builderCursor, i + 1,
              [acc EXCEPT !.composed = composed,
                          !.composedCursor = @ + U8Length(value),
                          !.runningCursor = @ + spanningLength])
       ELSE ComposedLoop(rs, nd, wk, builderCursor, i + 1,
              [acc EXCEPT !.composed = composed,
                          !.composedCursor = @ + U8Length(actualValue),
                          !.runningCursor = @ + distance,
                          !.tooltip =
                             IF Len(value) < spanningLength
                             THEN [NoTooltip EXCEPT
                                     !.kind = "between",
                                     !.prev = rs[builderCursor],
                                     !.next = rs[builderCursor + 1]]
                             ELSE @])

\* A builder with a memory of its own: every second call composes as if
\* the cursor were at the start.
GetComposedStringCounting(rs, nd, wk, builderCursor) ==
  LET Split(r) == [head |-> U8Prefix(r.composed, r.composedCursor),
                   tail |-> U8Suffix(r.composed, r.composedCursor),
                   tooltip |-> r.tooltip]
  IN Split(ComposedLoop(rs, nd, wk,
                        IF steps % 2 = 1 THEN 0 ELSE builderCursor, 1,
                        [runningCursor |-> 0, composed |-> <<>>,
                         composedCursor |-> 0, tooltip |-> NoTooltip]))

GetComposedString(rs, nd, wk, builderCursor) ==
  LET Split(r) == [head |-> U8Prefix(r.composed, r.composedCursor),
                   tail |-> U8Suffix(r.composed, r.composedCursor),
                   tooltip |-> r.tooltip]
  IN Split(ComposedLoop(rs, nd, wk, builderCursor, 1,
                        [runningCursor |-> 0, composed |-> <<>>,
                         composedCursor |-> 0, tooltip |-> NoTooltip]))

BuildInputtingState(rd, rs, cur, nd, wk) ==
  LET Inputting(composedString, rdStr) ==
        [EmptyState EXCEPT
           !.tag = "Inputting",
           !.composingBuffer = composedString.head \o rdStr
                               \o composedString.tail,
           !.cursorIndex = U8Length(composedString.head) + U8Length(rdStr),
           !.tooltip = composedString.tooltip]
  IN Inputting(GetComposedString(rs, nd, wk, cur), ReadingComposedString(rd))

\* The builder's cursor taken as the candidate position.
CursorAsCandidateIndex(cur, length, after) == cur

ActualCandidateCursorIndex(cur, length, after) ==
  IF after
  THEN (IF cur < length THEN cur + 1 ELSE cur)
  ELSE (IF cur = 0 /\ length > 0 THEN cur + 1 ELSE cur)

\* std::stable_sort with the comparison a.key().length() > b.key().length().
RECURSIVE InsertByKeyBytes(_, _, _)
InsertByKeyBytes(nd, sorted, id) ==
  IF sorted = <<>> THEN <<id>>
  ELSE IF KeyBytes(nd[id].key) > KeyBytes(nd[Head(sorted)].key)
  THEN <<id>> \o sorted
  ELSE <<Head(sorted)>> \o InsertByKeyBytes(nd, Tail(sorted), id)

RECURSIVE StableSortByKeyBytes(_, _, _)
StableSortByKeyBytes(nd, ids, sorted) ==
  IF ids = <<>> THEN sorted
  ELSE StableSortByKeyBytes(nd, Tail(ids), InsertByKeyBytes(nd, sorted, Head(ids)))

RECURSIVE CandidateValues(_, _)
CandidateValues(nd, ids) ==
  IF ids = <<>> THEN <<>>
  ELSE LET us == Candidates(nd[Head(ids)])
       IN [i \in 1..Len(us) |-> us[i].value] \o CandidateValues(nd, Tail(ids))

SortedAnchoredNodes(rs, cur, nd, after) ==
  StableSortByKeyBytes(
    nd,
    NodesCrossingOrEndingAt(nd, Len(rs),
                            ActualCandidateCursorIndex(cur, Len(rs), after)),
    <<>>)

BuildChoosingCandidateState(nonEmptyState, rs, cur, nd, after) ==
  [EmptyState EXCEPT
     !.tag = "ChoosingCandidate",
     !.composingBuffer = nonEmptyState.composingBuffer,
     !.cursorIndex = nonEmptyState.cursorIndex,
     !.candidates = CandidateValues(nd, SortedAnchoredNodes(rs, cur, nd, after))]

\* A lookup that finds no phrase.
NoMarkedPhrase(readingValue, value) == FALSE

MarkedPhraseExists(readingValue, value) ==
  LET AnyOf(unigrams) == \E i \in 1..Len(unigrams) : unigrams[i].value = value
  IN IF ~HasUnigramsForKey(readingValue) THEN FALSE
     ELSE AnyOf(UnigramsForKey(readingValue))

\* The readings [fromIndex, toIndex) of the builder; a slot past the end
\* of the vector reads as junk.
MarkedReadings(rs, fromIndex, toIndex, junk) ==
  [k \in 1..(toIndex - fromIndex) |->
     IF fromIndex + k <= Len(rs) THEN rs[fromIndex + k] ELSE junk]

\* A marking that starts where the cursor is.
MarkingFromCursor(beginCursorIndex, rs, cur, nd, wk, junk) ==
  [EmptyState EXCEPT !.tag = "Marking", !.markStartGridCursorIndex = cur]

BuildMarkingState(beginCursorIndex, rs, cur, nd, wk, junk) ==
  LET swap == beginCursorIndex > cur
      fromIndex == IF swap THEN cur ELSE beginCursorIndex
      toIndex == IF swap THEN beginCursorIndex ELSE cur
      Status(rdgs, marked) ==
        IF Len(rdgs) < kMinValidMarkingReadingCount
        THEN "syllables required"
        ELSE IF Len(rdgs) > kMaxValidMarkingReadingCount
        THEN "syllables maximum"
        ELSE IF MarkedPhraseExists(rdgs, marked) THEN "phrase already exists"
        ELSE "press Enter to add the phrase"
      Marking(composed, from, to, rdgs, marked, status) ==
        [EmptyState EXCEPT
           !.tag = "Marking",
           !.composingBuffer = composed.head \o composed.tail,
           !.cursorIndex = U8Length(composed.head),
           !.tooltip = [NoTooltip EXCEPT !.kind = "marked", !.marked = marked,
                                         !.syllables = rdgs, !.status = status],
           !.markStartGridCursorIndex = beginCursorIndex,
           !.head = from.head,
           !.markedText = marked,
           !.tail = to.tail,
           !.reading = rdgs,
           !.acceptable = (status = "press Enter to add the phrase")]
      Validated(composed, from, to, rdgs, marked) ==
        Marking(composed, from, to, rdgs, marked, Status(rdgs, marked))
      Delta(composed, from, to, rdgs) ==
        Validated(composed, from, to, rdgs,
                  U8Suffix(to.head, U8Length(from.head)))
      Ordered(from0, to0, rdgs) ==
        Delta(to0, IF swap THEN to0 ELSE from0, IF swap THEN from0 ELSE to0,
              rdgs)
  IN Ordered(GetComposedString(rs, nd, wk, beginCursorIndex),
             GetComposedString(rs, nd, wk, cur),
             MarkedReadings(rs, fromIndex, toIndex, junk))

\* A slot read past the end of the readings holds whatever is in memory.
JunkReadings(rs, a, b) ==
  IF a <= Len(rs) /\ b <= Len(rs) THEN {NoReading} ELSE {NoReading, SH4}

(***************************************************************************)
(* Keys.                                                                   *)
(***************************************************************************)
CursorKeys ==
  {"Left", "Right", "Home", "End", "S-Left", "S-Right", "S-Home", "S-End"}

DeleteKeys == {"BackSpace", "Delete"}

PunctuationKeys == {"<", ",", "~"}

\* key.isSimple(): the keys that are printable ASCII.
SimpleKeys == PhoneticKeys \cup PunctuationKeys \cup {"space", "grave"}

OtherKeys == {"F1"}

\* key.isSimple() ? key.sym() : 0, with "" for 0.
AsciiChar(key) == IF key \in SimpleKeys THEN key ELSE ""

KeySym(key) ==
  CASE key \in {"Left", "S-Left"} -> "Left"
    [] key \in {"Right", "S-Right"} -> "Right"
    [] key \in {"Home", "S-Home"} -> "Home"
    [] key \in {"End", "S-End"} -> "End"
    [] OTHER -> key

HasShift(key) == key \in {"S-Left", "S-Right", "S-Home", "S-End"}

(***************************************************************************)
(* KeyHandler: the operations.  Done gives every variable its next value   *)
(* at the end of a handle() call.                                          *)
(***************************************************************************)
Done(key, rd, rs, cur, nd, wk, ems, errs, r, add) ==
  /\ reading' = rd
  /\ readings' = rs
  /\ cursor' = cur
  /\ nodes' = nd
  /\ walked' = wk
  /\ emitted' = ems
  /\ errors' = errs
  /\ ret' = r
  /\ added' = add
  /\ state' = IF ems = <<>> THEN state ELSE ems[Len(ems)]
  /\ op' = [name |-> "handle", key |-> key, candidate |-> <<>>]
  /\ observed' = <<>>
  /\ pinned' = <<>>
  /\ steps' = steps + 1
  /\ UNCHANGED <<uom, selAfter, moveAfter>>

\* A call that changes nothing but always raises the error callback.
UnchangedWithError(key, ems, errs, r) ==
  Done(key, reading, readings, cursor, nodes, walked, ems, 1, r, <<>>)

\* A call that changes nothing and never raises the error callback.
UnchangedSilently(key, ems, errs, r) ==
  Done(key, reading, readings, cursor, nodes, walked, ems, 0, r, <<>>)

\* A call that changes nothing in the handler.
Unchanged(key, ems, errs, r) ==
  Done(key, reading, readings, cursor, nodes, walked, ems, errs, r, <<>>)

\* The value read through walkedNodes_[0] once a reading was inserted at p:
\* the node is gone when the insertion split it, and the read is of freed
\* memory.
AnchorValues(nd, a, p) ==
  IF a.loc < p /\ p < a.loc + a.len
  THEN {CurrentValue(NodeOf(nd, a)), <<"?">>}
  ELSE {CurrentValue(NodeOf(nd, a))}

\* A walk that evicts nothing.
WalkWithoutEviction(rs, nd, wk, nd0, p) ==
  {[readings |-> rs, nodes |-> nd, walked |-> Walk(nd, Len(rs)),
    evictedText |-> <<>>]}

\* popEvictedTextAndWalk, after a reading was inserted at p into the grid
\* that wk was walked on and nd0 were the nodes of.
PopEvictedTextAndWalk(rs, nd, wk, nd0, p) ==
  LET Walked(rs2, nd2, texts) ==
        {[readings |-> rs2, nodes |-> nd2, walked |-> Walk(nd2, Len(rs2)),
          evictedText |-> evictedText] : evictedText \in texts}
  IN IF Len(rs) > kComposingBufferSize /\ wk # <<>>
     THEN Walked(RemovedHeadReadings(rs, wk[1].len),
                 RemovedHeadNodes(rs, nd, wk[1].len),
                 AnchorValues(nd0, wk[1], p))
     ELSE Walked(rs, nd, {<<>>})

\* builder_->insertReadingAtCursor(r); popEvictedTextAndWalk();
InsertAndWalk(r) ==
  PopEvictedTextAndWalk(InsertedReadings(readings, cursor, r),
                        InsertedNodes(readings, nodes, cursor, r),
                        walked, nodes, Min(cursor, Len(readings)))

\* A score below every unigram score of the model.
ScoreBelowAll(nd, ids, epsilon) == kNoFloor

RECURSIVE FindHighestScoreFrom(_, _, _)
FindHighestScoreFrom(nd, ids, highestScore) ==
  IF ids = <<>> THEN highestScore
  ELSE LET score == HighestUnigramScore(nd[Head(ids)])
       IN FindHighestScoreFrom(nd, Tail(ids),
                               IF score > highestScore THEN score
                               ELSE highestScore)

FindHighestScore(nd, ids, epsilon) == FindHighestScoreFrom(nd, ids, 0) + epsilon

\* A compose that keeps a syllable the model does not know in the buffer.
ComposeKeepingReading(key, syllable) ==
  Done(key, syllable, readings, cursor, nodes, walked,
       <<BuildInputtingState(syllable, readings, cursor, nodes, walked)>>,
       1, "true", <<>>)

\* handle(): the reading is composed (lines 142-170).
ComposeReading(key, syllable) ==
  LET Emit(o, nd3) ==
        Done(key, NoReading, o.readings, cursor + 1, nd3, o.walked,
             <<[BuildInputtingState(NoReading, o.readings, cursor + 1, nd3,
                                    o.walked)
                  EXCEPT !.evictedText = o.evictedText]>>,
             0, "true", <<>>)
      Override(o, overrideValue, ids) ==
        Emit(o, OverrideNodes(o.nodes, ids, overrideValue,
                              FindHighestScore(o.nodes, ids, kEpsilon)))
  IN IF ~HasUnigramsForKey(<<syllable>>)
     THEN Done(key, NoReading, readings, cursor, nodes, walked,
               <<BuildInputtingState(NoReading, readings, cursor, nodes, walked)>>,
               1, "true", <<>>)
     ELSE \E o \in InsertAndWalk(syllable) :
          \E overrideValue \in
               Suggestions(uom, Context(o.walked, o.nodes, cursor + 1)) :
            IF overrideValue = <<>> THEN Emit(o, o.nodes)
            ELSE Override(o, overrideValue[1],
                   NodesCrossingOrEndingAt(o.nodes, Len(o.readings),
                     ActualCandidateCursorIndex(cursor + 1, Len(o.readings),
                                                selAfter)))

\* An Escape that throws the grid away with the reading.
EscapeClearingGrid(key) ==
  Done(key, NoReading, <<>>, 0, FreshNodes(<<>>), <<>>, <<EmptyState>>, 0,
       "true", <<>>)

\* handle(): Esc (lines 180-197).
HandleEscape(key) ==
  IF ~IsNotEmptyState(state) THEN Unchanged(key, <<>>, 0, "false")
  ELSE IF ~IsEmptyReading(reading)
  THEN Done(key, NoReading, readings, cursor, nodes, walked,
            IF Len(readings) = 0 THEN <<EmptyState>>
            ELSE <<BuildInputtingState(NoReading, readings, cursor, nodes, walked)>>,
            0, "true", <<>>)
  ELSE Unchanged(key,
                 <<BuildInputtingState(reading, readings, cursor, nodes, walked)>>,
                 0, "true")

\* Cursor keys that find no move invalid.
CursorKeysWithoutEdges(key) ==
  Unchanged(key,
            <<BuildInputtingState(reading, readings, cursor, nodes, walked)>>,
            0, "true")

\* Cursor keys that mark up to an edge and raise the error for a marking
\* that cannot be added.
CursorKeysRefusingInvalid(key) ==
  LET Emit(cur2, marking) ==
        Done(key, reading, readings, cur2, nodes, walked, <<marking>>,
             IF marking.acceptable THEN 0 ELSE 1, "true", <<>>)
      To(cur2) ==
        Emit(cur2, BuildMarkingState(cursor, readings, cur2, nodes, walked,
                                     NoReading))
  IN To(IF KeySym(key) \in {"Left", "Home"} THEN 0 ELSE Len(readings))

HandleCursorKeys(key) ==
  IF state.tag \notin {"Inputting", "Marking"}
  THEN Unchanged(key, <<>>, 0, "false")
  ELSE
    LET markBeginCursorIndex ==
          IF state.tag = "Marking" THEN state.markStartGridCursorIndex ELSE cursor
        sym == KeySym(key)
        isValidMove ==
          \/ sym = "Left" /\ cursor > 0
          \/ sym = "Right" /\ cursor < Len(readings)
          \/ sym \in {"Home", "End"}
        cur2 == CASE sym = "Left" /\ cursor > 0 -> cursor - 1
                  [] sym = "Right" /\ cursor < Len(readings) -> cursor + 1
                  [] sym = "Home" -> 0
                  [] sym = "End" -> Len(readings)
                  [] OTHER -> cursor
    IN IF ~IsEmptyReading(reading)
       THEN Unchanged(key,
                      <<BuildInputtingState(reading, readings, cursor, nodes, walked)>>,
                      1, "true")
       ELSE IF HasShift(key) /\ cur2 # markBeginCursorIndex
       THEN \E junk \in JunkReadings(readings, cur2, markBeginCursorIndex) :
              Done(key, reading, readings, cur2, nodes, walked,
                   <<BuildMarkingState(markBeginCursorIndex, readings, cur2,
                                       nodes, walked, junk)>>,
                   IF isValidMove THEN 0 ELSE 1, "true", <<>>)
       ELSE Done(key, reading, readings, cur2, nodes, walked,
                 <<BuildInputtingState(reading, readings, cur2, nodes, walked)>>,
                 IF isValidMove THEN 0 ELSE 1, "true", <<>>)

HandleDeleteKeys(key) ==
  LET Walked(cur2, rs2, nd2, wk2) ==
        Done(key, reading, rs2, cur2, nd2, wk2,
             IF Len(rs2) = 0 THEN <<EmptyIgnoringPreviousState>>
             ELSE <<BuildInputtingState(reading, rs2, cur2, nd2, wk2)>>,
             0, "true", <<>>)
      Deleted(cur2, rs2, nd2) == Walked(cur2, rs2, nd2, Walk(nd2, Len(rs2)))
      Backspaced(rd2) ==
        Done(key, rd2, readings, cursor, nodes, walked,
             IF IsEmptyReading(rd2) /\ Len(readings) = 0
             THEN <<EmptyIgnoringPreviousState>>
             ELSE <<BuildInputtingState(rd2, readings, cursor, nodes, walked)>>,
             IF key = "BackSpace" THEN 0 ELSE 1, "true", <<>>)
  IN IF ~IsNotEmptyState(state) THEN Unchanged(key, <<>>, 0, "false")
     ELSE IF IsEmptyReading(reading)
     THEN
       IF key = "BackSpace" /\ cursor > 0
       THEN Deleted(cursor - 1, DeletedReadings(readings, cursor - 1),
                    DeletedNodes(readings, nodes, cursor - 1))
       ELSE IF key = "Delete" /\ cursor < Len(readings)
       THEN Deleted(cursor, DeletedReadings(readings, cursor),
                    DeletedNodes(readings, nodes, cursor))
       ELSE Unchanged(key,
                      <<BuildInputtingState(reading, readings, cursor, nodes,
                                            walked)>>,
                      1, "true")
     ELSE Backspaced(IF key = "BackSpace" THEN BackspaceReading(reading)
                     ELSE reading)

\* An Enter that leaves a marking without adding its phrase.
ReturnWithoutPhrase(key) ==
  Unchanged(key,
            <<BuildInputtingState(reading, readings, cursor, nodes, walked)>>,
            0, "true")

\* An Enter that answers a marking with the Inputting state.
ReturnLeavingMarking(key) ==
  Unchanged(key,
            <<BuildInputtingState(reading, readings, cursor, nodes, walked)>>,
            1, "true")

\* An Enter that commits the text and keeps the grid.
ReturnWithoutReset(key) ==
  Unchanged(key,
            <<CommittingState(
                BuildInputtingState(reading, readings, cursor, nodes,
                                    walked).composingBuffer)>>,
            0, "true")

\* An Enter that throws an active reading away.
ReturnClearingReading(key) ==
  Done(key, NoReading, readings, cursor, nodes, walked,
       <<BuildInputtingState(NoReading, readings, cursor, nodes, walked)>>,
       1, "true", <<>>)

\* handle(): Enter (lines 217-249); reset() ends the Committing branch.
HandleReturn(key) ==
  IF ~IsNotEmptyState(state) THEN Unchanged(key, <<>>, 0, "false")
  ELSE IF ~IsEmptyReading(reading)
  THEN Unchanged(key,
                 <<BuildInputtingState(reading, readings, cursor, nodes, walked)>>,
                 1, "true")
  ELSE IF state.tag = "Marking"
  THEN IF state.acceptable
       THEN Done(key, reading, readings, cursor, nodes, walked,
                 <<BuildInputtingState(reading, readings, cursor, nodes, walked)>>,
                 0, "true",
                 <<[reading |-> state.reading, value |-> state.markedText]>>)
       ELSE \E junk \in JunkReadings(readings, cursor,
                                     state.markStartGridCursorIndex) :
              Unchanged(key,
                        <<BuildMarkingState(state.markStartGridCursorIndex,
                                            readings, cursor, nodes, walked, junk)>>,
                        1, "true")
  ELSE Done(key, NoReading, <<>>, 0, FreshNodes(<<>>), <<>>,
            <<CommittingState(
                BuildInputtingState(reading, readings, cursor, nodes,
                                    walked).composingBuffer)>>,
            0, "true", <<>>)

\* A punctuation-list key that is absorbed and does nothing.
PunctuationListIgnored(key) == Unchanged(key, <<>>, 0, "true")

\* A punctuation-list key whose candidates are those of the grid before
\* the insertion.
PunctuationListFromOldGrid(key) ==
  LET Emit(o, inputtingState) ==
        Done(key, reading, o.readings, cursor + 1, o.nodes, o.walked,
             <<inputtingState,
               BuildChoosingCandidateState(inputtingState, readings, cursor,
                                           nodes, selAfter)>>,
             0, "true", <<>>)
  IN IF IsEmptyReading(reading)
     THEN \E o \in InsertAndWalk(kPunctuationListKey) :
            Emit(o, [BuildInputtingState(reading, o.readings, cursor + 1,
                                         o.nodes, o.walked)
                       EXCEPT !.evictedText = o.evictedText])
     ELSE Unchanged(key, <<>>, 1, "true")

\* handle(): the punctuation list key (lines 251-270).
HandlePunctuationList(key) ==
  LET Emit(o, inputtingState) ==
        Done(key, reading, o.readings, cursor + 1, o.nodes, o.walked,
             <<inputtingState,
               BuildChoosingCandidateState(inputtingState, o.readings,
                                           cursor + 1, o.nodes, selAfter)>>,
             0, "true", <<>>)
  IN IF IsEmptyReading(reading)
     THEN \E o \in InsertAndWalk(kPunctuationListKey) :
            Emit(o, [BuildInputtingState(reading, o.readings, cursor + 1,
                                         o.nodes, o.walked)
                       EXCEPT !.evictedText = o.evictedText])
     ELSE Unchanged(key, <<>>, 1, "true")

\* A punctuation key that is absorbed and inserts nothing.
PunctuationIgnored(key, punctuationUnigramKey) ==
  Unchanged(key,
            <<BuildInputtingState(reading, readings, cursor, nodes, walked)>>,
            0, "true")

\* handlePunctuation(), once the model has unigrams for the key.
HandlePunctuation(key, punctuationUnigramKey) ==
  IF ~IsEmptyReading(reading)
  THEN Unchanged(key,
                 <<BuildInputtingState(reading, readings, cursor, nodes, walked)>>,
                 1, "true")
  ELSE \E o \in InsertAndWalk(punctuationUnigramKey) :
         Done(key, reading, o.readings, cursor + 1, o.nodes, o.walked,
              <<[BuildInputtingState(reading, o.readings, cursor + 1, o.nodes,
                                     o.walked)
                   EXCEPT !.evictedText = o.evictedText]>>,
              0, "true", <<>>)

\* KeyHandler::handle
Handle(key) ==
  LET valid == IsValidKey(AsciiChar(key))
      rd1 == IF valid THEN CombineKey(reading, key) ELSE reading
      shouldComposeReading ==
        HasToneMarker(rd1) \/ (~IsEmptyReading(rd1) /\ key = "space")
      chr == AsciiChar(key)
  IN IF valid /\ ~HasToneMarker(rd1)
     THEN Done(key, rd1, readings, cursor, nodes, walked,
               <<BuildInputtingState(rd1, readings, cursor, nodes, walked)>>,
               0, "true", <<>>)
     ELSE IF shouldComposeReading THEN ComposeReading(key, rd1)
     ELSE IF key = "space" /\ IsNotEmptyState(state) /\ IsEmptyReading(reading)
     THEN Unchanged(key,
                    <<BuildChoosingCandidateState(state, readings, cursor, nodes,
                                                  selAfter)>>,
                    0, "true")
     ELSE IF key = "Escape" THEN HandleEscape(key)
     ELSE IF key \in CursorKeys THEN HandleCursorKeys(key)
     ELSE IF key \in DeleteKeys THEN HandleDeleteKeys(key)
     ELSE IF key = "Return" THEN HandleReturn(key)
     ELSE IF key = "grave" /\ HasUnigramsForKey(<<kPunctuationListKey>>)
     THEN HandlePunctuationList(key)
     ELSE IF chr # "" /\ HasUnigramsForKey(<<LayoutPunctuationKey(chr)>>)
     THEN HandlePunctuation(key, LayoutPunctuationKey(chr))
     ELSE IF chr # "" /\ HasUnigramsForKey(<<GenericPunctuationKey(chr)>>)
     THEN HandlePunctuation(key, GenericPunctuationKey(chr))
     ELSE IF IsNotEmptyState(state)
     THEN Unchanged(key,
                    <<BuildInputtingState(reading, readings, cursor, nodes, walked)>>,
                    1, "true")
     ELSE Unchanged(key, <<>>, 0, "false")

\* A cursor that goes to the candidate position itself.
PositionOfPin(wk, i, nextPosition, cursorIndex) == cursorIndex

RECURSIVE NextPosition(_, _, _, _)
NextPosition(wk, i, nextPosition, cursorIndex) ==
  IF i > Len(wk) \/ nextPosition >= cursorIndex THEN nextPosition
  ELSE NextPosition(wk, i + 1, nextPosition + wk[i].len, cursorIndex)

\* KeyHandler::candidateSelected with pinNode.  When no node at the
\* position holds the candidate the node pointer is null and the call dies.
CandidateSelected(candidate) ==
  LET Emit(cursorIndex, nd2, observes, wk2, cur2, inputtingState) ==
        /\ ret' = "void"
        /\ nodes' = nd2
        /\ uom' = IF observes
                   THEN Observe(uom, Context(walked, nd2, cursorIndex), candidate)
                   ELSE uom
        /\ observed' = IF observes
                        THEN <<[position |-> cursorIndex, value |-> candidate]>>
                        ELSE <<>>
        /\ pinned' = <<[position |-> cursorIndex, value |-> candidate]>>
        /\ walked' = wk2
        /\ cursor' = cur2
        /\ emitted' = <<inputtingState>>
        /\ state' = inputtingState
      Moved(cursorIndex, nd2, observes, wk2, cur2) ==
        Emit(cursorIndex, nd2, observes, wk2, cur2,
             BuildInputtingState(reading, readings, cur2, nd2, wk2))
      Move(cursorIndex, nd2, observes, wk2, nextPosition) ==
        Moved(cursorIndex, nd2, observes, wk2,
              IF moveAfter /\ nextPosition <= Len(readings)
              THEN nextPosition ELSE cursor)
      Walked(cursorIndex, nd2, observes, wk2) ==
        Move(cursorIndex, nd2, observes, wk2,
             NextPosition(wk2, 1, 0, cursorIndex))
      Pinned(cursorIndex, selectedNode, nd2) ==
        Walked(cursorIndex, nd2,
               ScoreForCandidate(nd2[selectedNode[1]], candidate)
                 > kNoOverrideThreshold,
               Walk(nd2, Len(readings)))
      PinNode(cursorIndex, selectedNode) ==
        IF selectedNode = <<>>
        THEN /\ ret' = "crash"
             /\ emitted' = <<>>
             /\ observed' = <<>>
             /\ pinned' = <<>>
             /\ UNCHANGED <<cursor, nodes, walked, uom, state>>
        ELSE Pinned(cursorIndex, selectedNode,
                    FixNodeSelectedCandidate(nodes, Len(readings), cursorIndex,
                                             candidate))
      At(cursorIndex) ==
        PinNode(cursorIndex,
                FixedNodeAnchor(nodes, Len(readings), cursorIndex, candidate))
  IN /\ op' = [name |-> "candidateSelected", key |-> "", candidate |-> candidate]
     /\ steps' = steps + 1
     /\ errors' = 0
     /\ added' = <<>>
     /\ UNCHANGED <<reading, readings, selAfter, moveAfter>>
     /\ At(ActualCandidateCursorIndex(cursor, Len(readings), selAfter))

\* KeyHandler::candidatePanelCancelled
CandidatePanelCancelled ==
  LET Emit(inputtingState) ==
        /\ emitted' = <<inputtingState>>
        /\ state' = inputtingState
  IN /\ op' = [name |-> "candidatePanelCancelled", key |-> "",
                candidate |-> <<>>]
     /\ steps' = steps + 1
     /\ errors' = 0
     /\ ret' = "void"
     /\ added' = <<>>
     /\ observed' = <<>>
     /\ pinned' = <<>>
     /\ Emit(BuildInputtingState(reading, readings, cursor, nodes, walked))
     /\ UNCHANGED <<reading, readings, cursor, nodes, walked, uom, selAfter,
                    moveAfter>>

\* KeyHandler::reset, called by the engine when it resets its own state.
Reset ==
  /\ reading' = NoReading
  /\ readings' = <<>>
  /\ cursor' = 0
  /\ nodes' = FreshNodes(<<>>)
  /\ walked' = <<>>
  /\ state' = EmptyState
  /\ op' = [name |-> "reset", key |-> "", candidate |-> <<>>]
  /\ steps' = steps + 1
  /\ errors' = 0
  /\ ret' = "void"
  /\ emitted' = <<>>
  /\ added' = <<>>
  /\ observed' = <<>>
  /\ pinned' = <<>>
  /\ UNCHANGED <<uom, selAfter, moveAfter>>

Setter(name) ==
  /\ op' = [name |-> name, key |-> "", candidate |-> <<>>]
  /\ steps' = steps + 1
  /\ errors' = 0
  /\ ret' = "void"
  /\ emitted' = <<>>
  /\ added' = <<>>
  /\ observed' = <<>>
  /\ pinned' = <<>>
  /\ UNCHANGED <<reading, readings, cursor, nodes, walked, uom, state>>

SetSelectPhraseAfterCursorAsCandidate(flag) ==
  /\ selAfter' = flag
  /\ UNCHANGED moveAfter
  /\ Setter("setSelectPhraseAfterCursorAsCandidate")

SetMoveCursorAfterSelection(flag) ==
  /\ moveAfter' = flag
  /\ UNCHANGED selAfter
  /\ Setter("setMoveCursorAfterSelection")

(***************************************************************************)
(* The specification.  A run starts with the handler as it is after the    *)
(* readings of one of InitGrids were typed, with or without a candidate    *)
(* selected on the way, and the cursor was moved, with or without keys of  *)
(* a further reading typed, and with what the override model observed      *)
(* before the last reset; MaxSteps calls follow.                           *)
(***************************************************************************)
Rep(r, n) == [i \in 1..n |-> r]

InitGrids ==
  { <<>>,
    <<SH4>>,
    <<SH, SH, SH, SHU4>>,
    Rep(SH4, 7),
    Rep(SH4, 10),
    <<SH, SH, SH>> \o Rep(SH4, 7) }

InitReadings == {NoReading, SH}

\* Candidates selected while the grid was typed: the grid, the candidate
\* position and the value.  None of them scores above kNoOverrideThreshold,
\* so the override model has observed nothing.
InitSelected ==
  { [grid |-> <<SH, SH, SH, SHU4>>, position |-> 2,
     value |-> <<"ha", "ha", "ha">>] }

\* The nodes over a typed grid: as built, or with one of the selections made.
InitNodes(g) ==
  {FreshNodes(g)} \cup
  {FixNodeSelectedCandidate(FreshNodes(g), Len(g), s.position, s.value) :
     s \in {x \in InitSelected : x.grid = g}}

\* What the override model holds when the typing of the grid starts:
\* nothing, or the observation of "si" chosen at the end of <<SH4, SH4>>
\* while the walk went through the two-reading node, which reset() keeps.
InitObserved(g) ==
  {<<>>} \cup
  (IF Len(g) <= 1
   THEN {<<[ctx |-> [cur |-> <<SH4, SH4>>, prev |-> <<>>], value |-> <<"si">>]>>}
   ELSE {})

Init ==
  \E g \in InitGrids, rd \in InitReadings, sa \in BOOLEAN, ma \in BOOLEAN :
  \E c \in 0..Len(g), nd \in InitNodes(g), um \in InitObserved(g) :
  \E wk \in {Walk(nd, Len(g))} :
    /\ steps = 0
    /\ reading = rd
    /\ readings = g
    /\ cursor = c
    /\ nodes = nd
    /\ walked = wk
    /\ uom = um
    /\ selAfter = sa
    /\ moveAfter = ma
    /\ state = IF g = <<>> /\ rd = NoReading THEN EmptyState
               ELSE BuildInputtingState(rd, g, c, nd, wk)
    /\ emitted = <<>>
    /\ errors = 0
    /\ ret = "init"
    /\ op = [name |-> "init", key |-> "", candidate |-> <<>>]
    /\ added = <<>>
    /\ observed = <<>>
    /\ pinned = <<>>

Running == steps < MaxSteps /\ ret # "crash"

KeyPhonetic == Running /\ \E key \in PhoneticKeys : Handle(key)

KeySpace == Running /\ Handle("space")

KeyEscape == Running /\ Handle("Escape")

KeyCursor == Running /\ \E key \in CursorKeys : Handle(key)

KeyDelete == Running /\ \E key \in DeleteKeys : Handle(key)

KeyReturn == Running /\ Handle("Return")

KeyPunctuationList == Running /\ Handle("grave")

KeyPunctuation == Running /\ \E key \in PunctuationKeys : Handle(key)

KeyOther == Running /\ \E key \in OtherKeys : Handle(key)

SelectCandidate ==
  /\ Running
  /\ state.tag = "ChoosingCandidate"
  /\ \E i \in 1..Len(state.candidates) : CandidateSelected(state.candidates[i])

CancelCandidatePanel ==
  /\ Running
  /\ state.tag = "ChoosingCandidate"
  /\ CandidatePanelCancelled

ResetHandler == Running /\ Reset

SetSelectPhrase ==
  Running /\ \E flag \in BOOLEAN : SetSelectPhraseAfterCursorAsCandidate(flag)

SetMoveCursor == Running /\ \E flag \in BOOLEAN : SetMoveCursorAfterSelection(flag)

Next ==
  \/ KeyPhonetic
  \/ KeySpace
  \/ KeyEscape
  \/ KeyCursor
  \/ KeyDelete
  \/ KeyReturn
  \/ KeyPunctuationList
  \/ KeyPunctuation
  \/ KeyOther
  \/ SelectCandidate
  \/ CancelCandidatePanel
  \/ ResetHandler
  \/ SetSelectPhrase
  \/ SetMoveCursor

Spec == Init /\ [][Next]_vars

(***************************************************************************)
(* Properties.  A property of a call is stated over the step the call      *)
(* takes: unprimed variables are the handler before it, primed after it.   *)
(***************************************************************************)
\* The reading in the buffer once key was combined into it.
SyllableOf(rd, key) ==
  IF IsValidKey(AsciiChar(key)) THEN CombineKey(rd, key) ELSE rd

\* handle(key) composes the reading: a tone key, or space on a reading.
Composes(rd, key) ==
  \/ HasToneMarker(SyllableOf(rd, key))
  \/ ~IsEmptyReading(SyllableOf(rd, key)) /\ key = "space"

\* The step is a handle() call that composes a syllable the model knows.
ComposesSupported ==
  /\ op'.name = "handle"
  /\ steps' = steps + 1
  /\ Composes(reading, op'.key)
  /\ HasUnigramsForKey(<<SyllableOf(reading, op'.key)>>)

\* The anchors of wk lie one after the other from slot 0 to slot length.
RECURSIVE CoversFrom(_, _, _, _)
CoversFrom(wk, i, at, length) ==
  IF i > Len(wk) THEN at = length
  ELSE /\ wk[i].len >= 1
       /\ wk[i].loc = at
       /\ CoversFrom(wk, i + 1, at + wk[i].len, length)

Covers(wk, length) == CoversFrom(wk, 1, 0, length)

\* C1 as stated: composing a syllable the model has unigrams for makes the
\* grid exactly one reading longer, and the walked path stored afterwards
\* is forward-ordered, contiguous, non-overlapping and covers [0, length).
C1_ComposeGrowsByOne ==
  [][ComposesSupported =>
       /\ Len(readings') = Len(readings) + 1
       /\ Covers(walked', Len(readings'))]_vars

\* C1 amended: composing a syllable the model has unigrams for makes the
\* grid one reading longer while the result stays within the cap of 10;
\* at the cap the span of the previously walked leading node is taken off
\* again, so the length is the old length plus 1 minus that span.  In both
\* cases the walked path stored afterwards covers [0, length) in order
\* with no gap and no overlap.
C1_ComposeGrowsOrEvicts ==
  [][ComposesSupported =>
       /\ Len(readings') =
            IF Len(readings) + 1 <= kComposingBufferSize
            THEN Len(readings) + 1
            ELSE Len(readings) + 1 - walked[1].len
       /\ Covers(walked', Len(readings'))]_vars

\* C1 witness: a tone key composed a syllable into a full grid, the leading
\* text was evicted and the new walk has several nodes.
C1_ComposedAtCap ==
  /\ op.name = "handle"
  /\ op.key = "4"
  /\ errors = 0
  /\ state.tag = "Inputting"
  /\ state.evictedText # <<>>
  /\ Len(walked) > 1
  /\ Covers(walked, Len(readings))

\* The reading a handle(key) call inserts into the grid in the present
\* state, as a one-element sequence; <<>> when the call inserts none.
InsertionOf(key) ==
  IF Composes(reading, key)
  THEN IF HasUnigramsForKey(<<SyllableOf(reading, key)>>)
       THEN <<SyllableOf(reading, key)>> ELSE <<>>
  ELSE IF ~IsEmptyReading(reading) THEN <<>>
  ELSE IF key = "grave" THEN <<kPunctuationListKey>>
  ELSE IF key = "<" THEN <<LayoutPunctuationKey("<")>>
  ELSE IF key = "," THEN <<GenericPunctuationKey(",")>>
  ELSE <<>>

\* The step is a handle() call inserting a reading into a grid at the cap.
InsertsAtCap ==
  /\ op'.name = "handle"
  /\ steps' = steps + 1
  /\ InsertionOf(op'.key) # <<>>
  /\ Len(readings) + 1 > kComposingBufferSize

\* C2: when an insertion takes the grid over the cap of 10, wherever the
\* cursor was, the readings taken off the head are exactly the span of a
\* leading node of the grid that holds the inserted reading, and the
\* evicted text of the emitted Inputting state is the text of that node:
\* the text of exactly the readings removed.
C2_EvictsLeadingNode ==
  [][InsertsAtCap =>
       LET r == InsertionOf(op'.key)[1]
           grid == InsertedReadings(readings, cursor, r)
           gridNodes == InsertedNodes(readings, nodes, cursor, r)
           k == Len(grid) - Len(readings')
       IN /\ k >= 1
          /\ readings' = Drop(grid, k)
          /\ <<0, k>> \in DOMAIN gridNodes
          /\ emitted'[1].evictedText = CurrentValue(gridNodes[<<0, k>>])]_vars

\* C3: the grid never holds more than 10 readings, whatever keys were
\* handled and whatever candidates were selected.
C3_GridWithinCap == Len(readings) <= kComposingBufferSize

\* C3 witness: a punctuation key or the punctuation-list key was handled
\* on a full grid, and the emitted Inputting state carries evicted text.
C3_PunctuationAtCap ==
  /\ op.name = "handle"
  /\ op.key \in PunctuationKeys \cup {"grave"}
  /\ emitted # <<>>
  /\ emitted[1].evictedText # <<>>
  /\ Len(readings) <= kComposingBufferSize

\* C4: the cursor of the grid is within [0, length] in every state.
C4_CursorWithinGrid == 0 <= cursor /\ cursor <= Len(readings)

\* The step is a call that only builds an Inputting state from the handler
\* as it stands: Escape on an empty reading, a key nothing recognizes, or
\* the candidate panel being cancelled.
Republishes ==
  /\ steps' = steps + 1
  /\ \/ op'.name = "candidatePanelCancelled"
     \/ /\ op'.name = "handle"
        /\ op'.key \in {"Escape"} \cup OtherKeys
        /\ IsEmptyReading(reading)
        /\ IsNotEmptyState(state)

C6_MarkingAcceptable ==
  (state.tag = "Marking" /\ op.name = "handle") =>
    LET count == IF cursor > state.markStartGridCursorIndex
                 THEN cursor - state.markStartGridCursorIndex
                 ELSE state.markStartGridCursorIndex - cursor
        unigrams == UnigramsForKey(state.reading)
    IN /\ Len(state.reading) = count
       /\ state.acceptable <=>
            /\ count >= 2
            /\ count <= 6
            /\ \A i \in 1..Len(unigrams) : unigrams[i].value # state.markedText

\* C6 witness: an acceptable marking.
C6_AcceptableMarking ==
  /\ state.tag = "Marking"
  /\ state.acceptable
  /\ Len(state.reading) \in 2..6

\* C7: Escape in a non-empty state is absorbed and leaves the grid alone;
\* a non-empty reading is cleared and the state emitted is Empty when the
\* grid is empty and Inputting otherwise; with an empty reading the state
\* emitted is Inputting with the buffer and cursor of the state before.
C7_Escape ==
  [][(op'.name = "handle" /\ op'.key = "Escape" /\ steps' = steps + 1
        /\ IsNotEmptyState(state)) =>
       /\ ret' = "true"
       /\ UNCHANGED <<readings, cursor, nodes, walked>>
       /\ Len(emitted') = 1
       /\ IF ~IsEmptyReading(reading)
          THEN /\ reading' = NoReading
               /\ emitted'[1].tag =
                    IF Len(readings) = 0 THEN "Empty" ELSE "Inputting"
          ELSE /\ emitted'[1].tag = "Inputting"
               /\ emitted'[1].composingBuffer = state.composingBuffer
               /\ emitted'[1].cursorIndex = state.cursorIndex]_vars

\* C7 witness: Escape cleared a reading over an empty grid.
C7_EscapeToEmpty ==
  /\ op.name = "handle"
  /\ op.key = "Escape"
  /\ ret = "true"
  /\ state.tag = "Empty"
  /\ emitted = <<EmptyState>>

\* C8: a handle() call that returns false has invoked neither callback and
\* has left reading, grid, cursor, walked path and override model alone;
\* it returns false only in a state that is not a non-empty state, or for
\* a cursor key in a state that is neither Inputting nor Marking.
C8_NotAbsorbed ==
  [][(op'.name = "handle" /\ steps' = steps + 1 /\ ret' = "false") =>
       /\ emitted' = <<>>
       /\ errors' = 0
       /\ UNCHANGED <<reading, readings, cursor, nodes, walked, uom>>
       /\ \/ /\ ~IsNotEmptyState(state)
             /\ ~IsValidKey(AsciiChar(op'.key))
          \/ /\ op'.key \in CursorKeys
             /\ state.tag \notin {"Inputting", "Marking"}]_vars

\* C8 witness: a cursor key was passed through while choosing a candidate.
C8_CursorKeyPassedThrough ==
  /\ op.name = "handle"
  /\ op.key \in CursorKeys
  /\ ret = "false"
  /\ state.tag = "ChoosingCandidate"

\* The ids sorted by the length of their span, longest first, ids of equal
\* span in the order given.
RECURSIVE InsertBySpan(_, _)
InsertBySpan(sorted, id) ==
  IF sorted = <<>> THEN <<id>>
  ELSE IF id[2] > Head(sorted)[2] THEN <<id>> \o sorted
  ELSE <<Head(sorted)>> \o InsertBySpan(Tail(sorted), id)

RECURSIVE SortBySpan(_, _)
SortBySpan(ids, sorted) ==
  IF ids = <<>> THEN sorted
  ELSE SortBySpan(Tail(ids), InsertBySpan(sorted, Head(ids)))

\* C9: the candidates of a ChoosingCandidate state are those of the nodes
\* crossing the candidate position, the nodes taken by descending span,
\* nodes of equal span in the grid's order, each node's candidates in the
\* language model's order.
C9_CandidatesBySpan ==
  (state.tag = "ChoosingCandidate" /\ op.name = "handle") =>
    state.candidates =
      CandidateValues(nodes,
        SortBySpan(NodesCrossingOrEndingAt(nodes, Len(readings),
                     ActualCandidateCursorIndex(cursor, Len(readings), selAfter)),
                   <<>>))

\* The step is handle(space) on an empty reading over a non-empty grid in
\* the Inputting or the Marking state.
SpaceToChoose ==
  /\ op'.name = "handle"
  /\ op'.key = "space"
  /\ steps' = steps + 1
  /\ state.tag \in {"Inputting", "Marking"}
  /\ IsEmptyReading(reading)
  /\ Len(readings) > 0

\* The step is handle(space) on a non-empty reading.
SpaceOnReading ==
  /\ op'.name = "handle"
  /\ op'.key = "space"
  /\ steps' = steps + 1
  /\ ~IsEmptyReading(reading)

\* The nodes over slot position - 1.
NodesOver(position) ==
  {id \in DOMAIN nodes : id[1] < position /\ position <= id[1] + id[2]}

\* Space at candidate position: one ChoosingCandidate state, no error, grid
\* and cursor as before, buffer and cursor of the state in force, and the
\* candidates of exactly the nodes over the position.
ChoosesAt(position) ==
  /\ ret' = "true"
  /\ errors' = 0
  /\ Len(emitted') = 1
  /\ emitted'[1].tag = "ChoosingCandidate"
  /\ emitted'[1].composingBuffer = state.composingBuffer
  /\ emitted'[1].cursorIndex = state.cursorIndex
  /\ UNCHANGED <<reading, readings, cursor, nodes, walked>>
  /\ {emitted'[1].candidates[i] : i \in 1..Len(emitted'[1].candidates)} =
       UNION {SeqValues(Candidates(nodes[id])) : id \in NodesOver(position)}

\* Space on a reading composes it and does not open the candidates.
ComposesOnSpace ==
  /\ ret' = "true"
  /\ reading' = NoReading
  /\ Len(emitted') = 1
  /\ emitted'[1].tag = "Inputting"
  /\ IF HasUnigramsForKey(<<reading>>)
     THEN errors' = 0 /\ cursor' = cursor + 1
     ELSE errors' = 1 /\ UNCHANGED <<readings, cursor, nodes, walked>>

\* C10 as stated: space on an empty reading over a non-empty grid opens
\* the candidates of the nodes over the cursor (before-cursor mode) or
\* over cursor + 1 (after-cursor mode); space on a reading composes it.
C10_SpaceAtCursor ==
  [][/\ SpaceToChoose => ChoosesAt(IF selAfter THEN cursor + 1 ELSE cursor)
     /\ SpaceOnReading => ComposesOnSpace]_vars

\* C10 amended: the candidate position is cursor + 1 in after-cursor mode
\* only while the cursor is before the end of the grid, and the cursor
\* itself otherwise; in before-cursor mode it is the cursor, or 1 when
\* the cursor is at 0.
C10_SpaceAtCandidatePosition ==
  [][/\ SpaceToChoose =>
          ChoosesAt(IF selAfter
                    THEN (IF cursor < Len(readings) THEN cursor + 1 ELSE cursor)
                    ELSE (IF cursor = 0 THEN 1 ELSE cursor))
     /\ SpaceOnReading => ComposesOnSpace]_vars

\* C10 witness: space opened the candidates with the cursor at 0 in
\* before-cursor mode.
C10_ChoosingAtStart ==
  /\ op.name = "handle"
  /\ op.key = "space"
  /\ state.tag = "ChoosingCandidate"
  /\ state.candidates # <<>>
  /\ cursor = 0
  /\ ~selAfter

\* The step is a handle() call that composes a syllable the model does not
\* know.
ComposesUnsupported ==
  /\ op'.name = "handle"
  /\ steps' = steps + 1
  /\ Composes(reading, op'.key)
  /\ ~HasUnigramsForKey(<<SyllableOf(reading, op'.key)>>)

\* The call absorbed the key and raised the error once over an untouched
\* grid, and emitted one Inputting state.
RejectedOverGrid ==
  /\ ret' = "true"
  /\ errors' = 1
  /\ UNCHANGED <<readings, cursor, nodes, walked>>
  /\ Len(emitted') = 1
  /\ emitted'[1].tag = "Inputting"

\* C11 as stated: a completed syllable without unigrams is absorbed with
\* one error, the grid (readings, cursor, walked path) is unchanged, and
\* the Inputting state republished has the composing buffer and the cursor
\* of the state before the key.
C11_UnknownSyllableSameState ==
  [][ComposesUnsupported =>
       /\ RejectedOverGrid
       /\ emitted'[1].composingBuffer = state.composingBuffer
       /\ emitted'[1].cursorIndex = state.cursorIndex]_vars

\* C11 amended: a completed syllable without unigrams is absorbed with one
\* error and the grid is unchanged; the reading buffer is cleared, so the
\* Inputting state republished is the state before the key with the
\* display of the rejected reading taken out: its cursor is the former
\* cursor less the bytes of that display, and its buffer is the former
\* buffer up to there followed by the former buffer after the former cursor.
C11_UnknownSyllableDropsReading ==
  [][ComposesUnsupported =>
       /\ RejectedOverGrid
       /\ reading' = NoReading
       /\ emitted'[1].cursorIndex =
            state.cursorIndex - U8Length(ReadingComposedString(reading))
       /\ emitted'[1].composingBuffer =
            U8Prefix(state.composingBuffer, emitted'[1].cursorIndex)
            \o U8Suffix(state.composingBuffer, state.cursorIndex)]_vars

\* C11 witness: space on a reading the model has no unigrams for, typed
\* over a grid with the cursor past its start, was rejected.
C11_UnknownSyllableRejected ==
  /\ op.name = "handle"
  /\ op.key = "space"
  /\ steps = 2
  /\ errors = 1
  /\ reading = NoReading
  /\ state.tag = "Inputting"
  /\ emitted = <<state>>
  /\ state.cursorIndex > 0
  /\ Len(state.composingBuffer) > Len(U8Prefix(state.composingBuffer,
                                               state.cursorIndex))

\* The step is a handle() call with a cursor key in the Inputting or the
\* Marking state with nothing in the reading buffer.
CursorKeyStep ==
  /\ op'.name = "handle"
  /\ steps' = steps + 1
  /\ op'.key \in CursorKeys
  /\ state.tag \in {"Inputting", "Marking"}
  /\ IsEmptyReading(reading)

\* The start of the mark in force: that of the Marking state, or the cursor.
MarkStart ==
  IF state.tag = "Marking" THEN state.markStartGridCursorIndex ELSE cursor

\* The call raised the error once and left cursor and grid alone.
ErrorWithoutMove ==
  /\ ret' = "true"
  /\ errors' = 1
  /\ UNCHANGED <<reading, readings, cursor, nodes, walked>>
  /\ Len(emitted') = 1

\* C12 as stated: Left or Home at position 0 and Right or End at position =
\* length raise the error and change nothing: cursor and grid are as
\* before, Inputting stays Inputting and Marking stays Marking with the
\* same start index.
C12_BoundaryMoveIsError ==
  [][(/\ CursorKeyStep
      /\ \/ KeySym(op'.key) \in {"Left", "Home"} /\ cursor = 0
         \/ KeySym(op'.key) \in {"Right", "End"} /\ cursor = Len(readings)) =>
       /\ ErrorWithoutMove
       /\ emitted'[1].tag = state.tag
       /\ emitted'[1].markStartGridCursorIndex =
            state.markStartGridCursorIndex]_vars

\* C12 amended: the error is raised exactly for Left at position 0 and for
\* Right with the cursor not before the end of the grid; cursor and grid
\* are then as before, and the state emitted is Marking with the start
\* index in force when Shift is held and the cursor is not at that index,
\* and Inputting otherwise, with the buffer and cursor of the state
\* before.  Home and End raise no error, at the edge they move to or not.
C12_BoundaryStepIsError ==
  [][CursorKeyStep =>
       IF \/ KeySym(op'.key) = "Left" /\ cursor = 0
          \/ KeySym(op'.key) = "Right" /\ cursor >= Len(readings)
       THEN /\ ErrorWithoutMove
            /\ emitted'[1].tag =
                 IF HasShift(op'.key) /\ cursor # MarkStart
                 THEN "Marking" ELSE "Inputting"
            /\ emitted'[1].tag = "Marking" =>
                 emitted'[1].markStartGridCursorIndex = MarkStart
            /\ emitted'[1].composingBuffer = state.composingBuffer
            /\ emitted'[1].cursorIndex = state.cursorIndex
       ELSE /\ errors' = 0
            /\ ret' = "true"
            /\ KeySym(op'.key) = "Home" => cursor' = 0
            /\ KeySym(op'.key) = "End" => cursor' = Len(readings)]_vars

\* C12 witness: Shift+Left at position 0 in a Marking state raised the
\* error and the Marking state stayed, its start index past the cursor.
C12_MarkingKeptAtEdge ==
  /\ op.name = "handle"
  /\ op.key = "S-Left"
  /\ errors = 1
  /\ cursor = 0
  /\ state.tag = "Marking"
  /\ state.markStartGridCursorIndex > 0
  /\ emitted = <<state>>

\* C13: a cursor key on an empty reading in the Inputting or the Marking
\* state emits one state.  With Shift, and the cursor not ending at the
\* start index, it is a Marking state whose start index is the cursor
\* before the move when the state was Inputting, and the start index of
\* the Marking state when it was Marking.  Without Shift, or with the
\* cursor ending at the start index, it is an Inputting state.
C13_MarkingKeepsStart ==
  [][CursorKeyStep =>
       /\ Len(emitted') = 1
       /\ IF HasShift(op'.key) /\ cursor' # MarkStart
          THEN /\ emitted'[1].tag = "Marking"
               /\ emitted'[1].markStartGridCursorIndex = MarkStart
          ELSE emitted'[1].tag = "Inputting"]_vars

\* C13 witness: a second Shift+Right extended a marking, the cursor two
\* slots past the start index the first one set.
C13_MarkingExtended ==
  /\ steps = 2
  /\ op.name = "handle"
  /\ op.key = "S-Right"
  /\ errors = 0
  /\ state.tag = "Marking"
  /\ cursor = state.markStartGridCursorIndex + 2
  /\ cursor <= Len(readings)

\* The step is a handle() call with Backspace or Delete in a non-empty
\* state with nothing in the reading buffer.
DeleteKeyStep ==
  /\ op'.name = "handle"
  /\ steps' = steps + 1
  /\ op'.key \in DeleteKeys
  /\ IsNotEmptyState(state)
  /\ IsEmptyReading(reading)

\* The text of a walked path: the selected values of its nodes, joined.
ComposedText(nd, wk) ==
  Concat([i \in 1..Len(wk) |-> CurrentValue(NodeOf(nd, wk[i]))])

\* The call took slot p (from 0) out of the grid and nothing else, raised
\* no error, and walked the grid before it emitted the state.
RemovedSlot(p) ==
  /\ Len(readings') = Len(readings) - 1
  /\ readings' = Take(readings, p) \o Drop(readings, p + 1)
  /\ errors' = 0
  /\ walked' = Walk(nodes', Len(readings'))
  /\ Covers(walked', Len(readings'))
  /\ Len(emitted') = 1
  /\ emitted'[1].composingBuffer = ComposedText(nodes', walked')

\* C14: with an empty reading in a non-empty state, Backspace at cursor > 0
\* removes exactly the reading before the cursor and Delete at cursor <
\* length exactly the reading after it: the grid is one shorter, the other
\* readings keep their order, the grid is walked again before the state is
\* emitted and no error is raised.  Backspace at cursor 0 and Delete with
\* no reading after the cursor raise the error once and leave the grid
\* unchanged.
C14_DeleteRemovesOne ==
  [][DeleteKeyStep =>
       IF op'.key = "BackSpace" /\ cursor > 0
       THEN RemovedSlot(cursor - 1)
       ELSE IF op'.key = "Delete" /\ cursor < Len(readings)
       THEN RemovedSlot(cursor)
       ELSE /\ errors' = 1
            /\ UNCHANGED <<readings, cursor, nodes, walked>>]_vars

\* C15: when handle() absorbs Backspace or Delete it emits one state:
\* EmptyIgnoringPrevious if the reading buffer and the grid are both empty
\* when it returns, Inputting otherwise.
C15_EmptyAfterDelete ==
  [][(/\ op'.name = "handle"
      /\ steps' = steps + 1
      /\ op'.key \in DeleteKeys
      /\ ret' = "true") =>
       /\ Len(emitted') = 1
       /\ emitted'[1].tag =
            IF IsEmptyReading(reading') /\ Len(readings') = 0
            THEN "EmptyIgnoringPrevious" ELSE "Inputting"]_vars

\* The step is handle(Enter) in a Marking state.
EnterOnMarking ==
  /\ op'.name = "handle"
  /\ steps' = steps + 1
  /\ op'.key = "Return"
  /\ state.tag = "Marking"

\* C16: Enter in a Marking state whose mark is acceptable calls
\* addUserPhrase exactly once, with the reading key and the marked text of
\* the marking, raises no error, leaves the readings, the cursor and the
\* rest of the grid as they were, and emits exactly one Inputting state.
C16_EnterAddsPhrase ==
  [][(EnterOnMarking /\ state.acceptable) =>
       /\ ret' = "true"
       /\ added' = <<[reading |-> state.reading, value |-> state.markedText]>>
       /\ errors' = 0
       /\ UNCHANGED <<reading, readings, cursor, nodes, walked>>
       /\ Len(emitted') = 1
       /\ emitted'[1].tag = "Inputting"]_vars

\* C16 witness: Enter added the phrase of a marking of two to six of the
\* grid's readings, and the handler is back in the Inputting state.
C16_PhraseAdded ==
  /\ op.name = "handle"
  /\ op.key = "Return"
  /\ errors = 0
  /\ Len(added) = 1
  /\ Len(added[1].reading) \in 2..6
  /\ added[1].value # <<>>
  /\ state.tag = "Inputting"
  /\ emitted = <<state>>

\* The marking in force lies within the grid.
MarkingWithinGrid ==
  /\ cursor <= Len(readings)
  /\ state.markStartGridCursorIndex <= Len(readings)

\* C17: Enter in a Marking state whose mark is not acceptable raises the
\* error once, adds no user phrase, leaves grid and cursor as they were,
\* and emits one Marking state with the start index, the marked text, the
\* buffer, the cursor and the validity of the state before; with the
\* marking within the grid it is the state before in every field.
C17_EnterKeepsMarking ==
  [][(EnterOnMarking /\ ~state.acceptable) =>
       /\ ret' = "true"
       /\ errors' = 1
       /\ added' = <<>>
       /\ UNCHANGED <<reading, readings, cursor, nodes, walked>>
       /\ Len(emitted') = 1
       /\ emitted'[1].tag = "Marking"
       /\ emitted'[1].markStartGridCursorIndex = state.markStartGridCursorIndex
       /\ emitted'[1].markedText = state.markedText
       /\ emitted'[1].composingBuffer = state.composingBuffer
       /\ emitted'[1].cursorIndex = state.cursorIndex
       /\ emitted'[1].acceptable = state.acceptable
       /\ MarkingWithinGrid => emitted'[1] = state]_vars

\* C17 witness: Enter was refused on a marking of two readings whose
\* phrase the model already has, and the Marking state is still in force.
C17_ExistingPhraseRefused ==
  /\ op.name = "handle"
  /\ op.key = "Return"
  /\ errors = 1
  /\ added = <<>>
  /\ state.tag = "Marking"
  /\ ~state.acceptable
  /\ Len(state.reading) = 2
  /\ state.tooltip.status = "phrase already exists"
  /\ emitted = <<state>>

\* The move a cursor key asks for is refused at an edge of the grid.
RefusedAtEdge ==
  \/ KeySym(op'.key) = "Left" /\ cursor = 0
  \/ KeySym(op'.key) = "Right" /\ cursor >= Len(readings)

\* The status texts of a marking that cannot be added.
InvalidMarkingStatus ==
  {"syllables required", "syllables maximum", "phrase already exists"}

\* A cursor key that emits a Marking state raises the error only for a
\* move refused at an edge, whatever the validity of the marking; the
\* validity is in the flag and in the status text.
MarkingReportedInState ==
  (CursorKeyStep /\ emitted'[1].tag = "Marking") =>
    /\ errors' = IF RefusedAtEdge THEN 1 ELSE 0
    /\ emitted'[1].tooltip.status = "press Enter to add the phrase"
         <=> emitted'[1].acceptable
    /\ ~emitted'[1].acceptable =>
         emitted'[1].tooltip.status \in InvalidMarkingStatus

\* C18 as stated: an invalid marking is reported through the status text
\* and the validity flag of the Marking state only; creating it, extending
\* it with Shift+cursor keys and pressing Enter on it raise no error on
\* account of the marking being invalid.
C18_InvalidMarkingNeverError ==
  [][/\ MarkingReportedInState
     /\ (EnterOnMarking /\ ~state.acceptable) => errors' = 0]_vars

\* C18 amended: creating or extending an invalid marking with Shift+cursor
\* keys raises no error on account of the marking, which is reported in
\* the status text and the validity flag; Enter on a Marking state raises
\* the error exactly when the marking is invalid, and then adds no phrase.
C18_InvalidMarkingErrorOnEnter ==
  [][/\ MarkingReportedInState
     /\ EnterOnMarking =>
          /\ errors' = IF state.acceptable THEN 0 ELSE 1
          /\ ~state.acceptable => added' = <<>>]_vars

\* C18 witness: Shift+Home marked more than six readings: an invalid
\* marking was emitted and no error raised.
C18_LongMarkingNoError ==
  /\ op.name = "handle"
  /\ op.key = "S-Home"
  /\ errors = 0
  /\ state.tag = "Marking"
  /\ ~state.acceptable
  /\ state.tooltip.status = "syllables maximum"
  /\ Len(state.reading) > kMaxValidMarkingReadingCount

\* The step is handle(Enter) in a non-empty state that is not Marking.
EnterToCommit ==
  /\ op'.name = "handle"
  /\ steps' = steps + 1
  /\ op'.key = "Return"
  /\ IsNotEmptyState(state)
  /\ state.tag # "Marking"

\* The call emitted one Committing state with the text and left the
\* handler empty: no reading, no grid, the cursor at 0, no walked path.
CommittedAndReset(text) ==
  /\ ret' = "true"
  /\ errors' = 0
  /\ emitted' = <<CommittingState(text)>>
  /\ Len(readings') = 0
  /\ DOMAIN nodes' = {}
  /\ cursor' = 0
  /\ reading' = NoReading
  /\ walked' = <<>>

\* C19 as stated: Enter in any non-empty state that is not Marking emits
\* exactly one Committing state whose text is the composed text with the
\* display of the reading in place, the buffer of the state before, and
\* leaves grid, cursor, reading and walked path empty.
C19_EnterAlwaysCommits ==
  [][EnterToCommit => CommittedAndReset(state.composingBuffer)]_vars

\* C19 amended: Enter in a non-empty state that is not Marking commits
\* only with an empty reading buffer: it then emits exactly one Committing
\* state whose text is the concatenation of the selected values of the
\* walked nodes, and leaves grid, cursor, reading and walked path empty.
\* With a reading in the buffer it raises the error once, emits the
\* Inputting state again and changes nothing.
C19_EnterCommitsWithoutReading ==
  [][EnterToCommit =>
       IF IsEmptyReading(reading)
       THEN CommittedAndReset(ComposedText(nodes, walked))
       ELSE /\ ret' = "true"
            /\ errors' = 1
            /\ Len(emitted') = 1
            /\ emitted'[1].tag = "Inputting"
            /\ emitted'[1].composingBuffer = state.composingBuffer
            /\ UNCHANGED <<reading, readings, cursor, nodes, walked>>]_vars

\* C19 witness: Enter committed the text of a grid and emptied the handler.
C19_Committed ==
  /\ op.name = "handle"
  /\ op.key = "Return"
  /\ errors = 0
  /\ state.tag = "Committing"
  /\ Len(state.text) > 1
  /\ emitted = <<state>>
  /\ readings = <<>>
  /\ cursor = 0
  /\ reading = NoReading
  /\ walked = <<>>

\* The punctuation key a character resolves to, as a one-element
\* sequence: the layout-specific key when the model has unigrams for it,
\* else the generic key when the model has unigrams for that, else <<>>.
ResolvedPunctuation(chr) ==
  IF HasUnigramsForKey(<<LayoutPunctuationKey(chr)>>)
  THEN <<LayoutPunctuationKey(chr)>>
  ELSE IF HasUnigramsForKey(<<GenericPunctuationKey(chr)>>)
  THEN <<GenericPunctuationKey(chr)>>
  ELSE <<>>

\* The step is a handle() call with a printable key that is not a phonetic
\* key and resolves to a punctuation key, on an empty reading.
PunctuationResolves ==
  /\ op'.name = "handle"
  /\ steps' = steps + 1
  /\ op'.key \in SimpleKeys \ PhoneticKeys
  /\ IsEmptyReading(reading)
  /\ ResolvedPunctuation(op'.key) # <<>>

\* The key is taken before punctuation is tried: space opens the
\* candidates in a non-empty state, and grave is the punctuation-list key
\* when the model has the list.
TakenBeforePunctuation ==
  \/ op'.key = "space" /\ IsNotEmptyState(state)
  \/ op'.key = "grave" /\ HasUnigramsForKey(<<kPunctuationListKey>>)

\* The call inserted the reading r at the cursor and nothing else, walked
\* the grid and emitted count states, the first the Inputting state with
\* the text evicted, if any.
InsertedOne(r, count) ==
  /\ ret' = "true"
  /\ errors' = 0
  /\ cursor' = cursor + 1
  /\ IF Len(readings) + 1 <= kComposingBufferSize
     THEN /\ readings' = Take(readings, cursor) \o <<r>> \o Drop(readings, cursor)
          /\ emitted'[1].evictedText = <<>>
     ELSE /\ Len(readings') = Len(readings) + 1 - walked[1].len
          /\ emitted'[1].evictedText # <<>>
  /\ walked' = Walk(nodes', Len(readings'))
  /\ Covers(walked', Len(readings'))
  /\ Len(emitted') = count
  /\ emitted'[1].tag = "Inputting"

\* C20 as stated: a printable key that is not a phonetic key resolves to
\* the layout-specific punctuation key first and to the generic one only
\* if the model has no unigrams for the first; when it resolves and the
\* reading is empty, exactly the resolved key is inserted at the cursor,
\* the grid is walked, and one Inputting state with any evicted text is
\* emitted, in the Empty state as in the non-empty ones.
C20_PrintableKeyIsPunctuation ==
  [][PunctuationResolves =>
       InsertedOne(ResolvedPunctuation(op'.key)[1], 1)]_vars

\* C20 amended: the same, for the printable keys that handle() has not
\* taken before it tries punctuation.  Space on an empty reading in a
\* non-empty state opens the candidates, and grave, when the model has the
\* punctuation list, inserts the list key and emits the Inputting state
\* followed by a ChoosingCandidate state, whatever punctuation key they
\* would resolve to.
C20_PunctuationAfterOtherKeys ==
  [][PunctuationResolves =>
       IF ~TakenBeforePunctuation
       THEN InsertedOne(ResolvedPunctuation(op'.key)[1], 1)
       ELSE IF op'.key = "grave"
       THEN /\ InsertedOne(kPunctuationListKey, 2)
            /\ emitted'[2].tag = "ChoosingCandidate"
       ELSE /\ Len(emitted') = 1
            /\ emitted'[1].tag = "ChoosingCandidate"
            /\ UNCHANGED <<readings, cursor, nodes, walked>>]_vars

\* C20 witness: in the Empty state a key without a layout-specific
\* punctuation key was inserted as its generic punctuation key.
C20_GenericPunctuationFromEmpty ==
  /\ steps = 1
  /\ op.name = "handle"
  /\ op.key = ","
  /\ errors = 0
  /\ readings = <<GenericPunctuationKey(",")>>
  /\ cursor = 1
  /\ Len(walked) = 1
  /\ state.tag = "Inputting"
  /\ state.composingBuffer = <<"pc">>
  /\ emitted = <<state>>

\* The step is a candidateSelected() call.
SelectionStep ==
  /\ op'.name = "candidateSelected"
  /\ steps' = steps + 1

\* The candidate position of the handler as it stands.
CandidatePosition == ActualCandidateCursorIndex(cursor, Len(readings), selAfter)

\* C21: after candidateSelected(c) for a candidate c of the current
\* ChoosingCandidate list the call has returned, a node at the candidate
\* position holds c selected and fixed, the grid was walked again, the
\* walked path has a node over the candidate position whose selected value
\* is c, the readings are as before and exactly one Inputting state was
\* emitted.
C21_SelectionOnWalkedPath ==
  [][SelectionStep =>
       /\ ret' = "void"
       /\ \E id \in NodesOver(CandidatePosition) :
            /\ CurrentValue(nodes'[id]) = op'.candidate
            /\ nodes'[id].score = kSelectedCandidateScore
       /\ walked' = Walk(nodes', Len(readings'))
       /\ \E i \in 1..Len(walked') :
            /\ walked'[i].loc < CandidatePosition
            /\ CandidatePosition <= walked'[i].loc + walked'[i].len
            /\ CurrentValue(NodeOf(nodes', walked'[i])) = op'.candidate
       /\ UNCHANGED <<reading, readings>>
       /\ Len(emitted') = 1
       /\ emitted'[1].tag = "Inputting"]_vars

\* The key has no handler: it is not a phonetic key, space, Escape, a
\* cursor key, a delete key or Enter, it is not the punctuation-list key
\* of a model that has the list, and it resolves to no punctuation key.
NoHandlerFor(key) ==
  /\ key \notin PhoneticKeys \cup CursorKeys \cup DeleteKeys
  /\ key \notin {"space", "Escape", "Return"}
  /\ ~(key = "grave" /\ HasUnigramsForKey(<<kPunctuationListKey>>))
  /\ AsciiChar(key) = "" \/ ResolvedPunctuation(AsciiChar(key)) = <<>>

\* C22: a key that matches no handler, pressed in a non-empty state
\* (Inputting, Marking or ChoosingCandidate), is absorbed, raises the error
\* exactly once, leaves reading, grid and cursor as they were and emits
\* exactly one Inputting state with the buffer and cursor of the state in
\* force.
C22_UnhandledKeyRepublishes ==
  [][(/\ op'.name = "handle"
      /\ steps' = steps + 1
      /\ NoHandlerFor(op'.key)
      /\ IsNotEmptyState(state)) =>
       /\ ret' = "true"
       /\ errors' = 1
       /\ UNCHANGED <<reading, readings, cursor, nodes, walked>>
       /\ Len(emitted') = 1
       /\ emitted'[1].tag = "Inputting"
       /\ emitted'[1].composingBuffer = state.composingBuffer
       /\ emitted'[1].cursorIndex = state.cursorIndex]_vars

\* C22 witness: a printable key that resolves to no punctuation key was
\* absorbed with an error over a grid, after an earlier call.
C22_UnhandledKeyAbsorbed ==
  /\ steps = 2
  /\ op.name = "handle"
  /\ op.key = "~"
  /\ ret = "true"
  /\ errors = 1
  /\ state.tag = "Inputting"
  /\ emitted = <<state>>
  /\ Len(readings) > 0

\* C23: every handle() call returns, true or false, having raised the
\* error at most once, and a call that returns true has emitted at least
\* one state or raised the error.
C23_OneErrorAndAnAnswer ==
  [][(op'.name = "handle" /\ steps' = steps + 1) =>
       /\ ret' \in {"true", "false"}
       /\ errors' \in {0, 1}
       /\ ret' = "true" => (emitted' # <<>> \/ errors' = 1)]_vars

\* C23 witness: the punctuation-list key on an active reading was absorbed
\* with the error and no state.
C23_ErrorWithoutState ==
  /\ op.name = "handle"
  /\ op.key = "grave"
  /\ ret = "true"
  /\ errors = 1
  /\ emitted = <<>>
  /\ ~IsEmptyReading(reading)

\* The punctuation-list key on an empty reading.
PunctuationListStep ==
  /\ op'.name = "handle"
  /\ steps' = steps + 1
  /\ op'.key = "grave"
  /\ IsEmptyReading(reading)
  /\ HasUnigramsForKey(<<kPunctuationListKey>>)

\* The candidate values of the nodes that cross or end at the candidate
\* position of the grid after the step.
CandidatesAfter ==
  LET Over(position) ==
        {id \in DOMAIN nodes' :
           /\ nodes'[id].candidates # <<>>
           /\ id[1] < position
           /\ position <= id[1] + id[2]}
  IN UNION {SeqValues(Candidates(nodes'[id])) :
              id \in Over(ActualCandidateCursorIndex(cursor', Len(readings'),
                                                     selAfter))}

\* C24: the punctuation-list key on an empty reading, the model having the
\* punctuation-list key, inserts one reading, walks and emits two states:
\* an Inputting state built from the grid after the walk (with the evicted
\* text, if any), then a ChoosingCandidate state with the buffer and cursor
\* of that Inputting state and the candidates of the grid after the
\* insertion.
C24_PunctuationListTwoStates ==
  [][PunctuationListStep =>
       /\ InsertedOne(kPunctuationListKey, 2)
       /\ LET built == BuildInputtingState(reading', readings', cursor',
                                           nodes', walked')
          IN /\ emitted'[1].composingBuffer = built.composingBuffer
             /\ emitted'[1].cursorIndex = built.cursorIndex
       /\ emitted'[2].tag = "ChoosingCandidate"
       /\ emitted'[2].composingBuffer = emitted'[1].composingBuffer
       /\ emitted'[2].cursorIndex = emitted'[1].cursorIndex
       /\ {emitted'[2].candidates[i] : i \in 1..Len(emitted'[2].candidates)}
            = CandidatesAfter]_vars

\* C24 witness: the punctuation-list key emitted Inputting, then
\* ChoosingCandidate with the punctuation candidates, over a grid that
\* held readings before.
C24_PunctuationListChoosing ==
  /\ op.name = "handle"
  /\ op.key = "grave"
  /\ Len(emitted) = 2
  /\ emitted[1].tag = "Inputting"
  /\ emitted[2].tag = "ChoosingCandidate"
  /\ emitted[2].candidates = <<<<"pc">>, <<"<">>>>
  /\ Len(readings) > 1
  /\ state = emitted[2]

(***************************************************************************)
(* The language model on its own: a model drawn from small tables, looked  *)
(* up through unigramsForKey and hasUnigramsForKey, with the two switches  *)
(* set in between.  op carries the model the call was made on.             *)
(***************************************************************************)
MaxRows == 3

LMValues == {<<"ha">>, <<"hb">>, <<"hc">>}

\* The rows of one key: up to n values, scored by their place in the table.
LMRows(n, unit) ==
  UNION {{[i \in 1..k |-> U(f[i], unit * i)] : f \in [1..k -> LMValues]} :
           k \in 0..n}

LMKeys == {<<SH>>, <<SH4>>}

LMTable(rows) == IF rows = <<>> THEN <<>> ELSE <<[key |-> <<SH>>, rows |-> rows]>>

LMInit ==
  \E primary \in LMRows(MaxRows, -1000000), user \in LMRows(1, 0),
     excluded \in LMRows(1, 0), rep \in BOOLEAN, conv \in BOOLEAN :
    /\ steps = 0
    /\ reading = NoReading
    /\ readings = <<>>
    /\ cursor = 0
    /\ nodes = FreshNodes(<<>>)
    /\ walked = <<>>
    /\ uom = <<>>
    /\ selAfter = FALSE
    /\ moveAfter = FALSE
    /\ state = EmptyState
    /\ emitted = <<>>
    /\ errors = 0
    /\ ret = "init"
    /\ op = [name |-> "init", key |-> <<>>, candidate |-> <<>>,
             lm |-> [m_languageModel |-> LMTable(primary),
                     m_userPhrases |-> LMTable(user),
                     m_excludedPhrases |-> LMTable(excluded),
                     m_phraseReplacementEnabled |-> rep,
                     m_externalConverterEnabled |-> conv]]
    /\ added = <<>>
    /\ observed = <<>>
    /\ pinned = <<>>

LMCall(name, key, lm, r) ==
  /\ steps < MaxSteps
  /\ steps' = steps + 1
  /\ op' = [name |-> name, key |-> key, candidate |-> <<>>, lm |-> lm]
  /\ ret' = r
  /\ UNCHANGED <<reading, readings, cursor, nodes, walked, uom, selAfter,
                 moveAfter, state, emitted, errors, added, observed, pinned>>

LMUnigramsForKey ==
  \E key \in LMKeys : LMCall("unigramsForKey", key, op.lm, UnigramsOf(op.lm, key))

LMHasUnigramsForKey ==
  \E key \in LMKeys :
    LMCall("hasUnigramsForKey", key, op.lm,
           IF UnigramsOf(op.lm, key) # <<>> THEN "true" ELSE "false")

LMSetPhraseReplacementEnabled ==
  \E enabled \in BOOLEAN :
    LMCall("setPhraseReplacementEnabled", <<>>,
           [op.lm EXCEPT !.m_phraseReplacementEnabled = enabled], "void")

LMSetExternalConverterEnabled ==
  \E enabled \in BOOLEAN :
    LMCall("setExternalConverterEnabled", <<>>,
           [op.lm EXCEPT !.m_externalConverterEnabled = enabled], "void")

LMNext ==
  \/ LMUnigramsForKey
  \/ LMHasUnigramsForKey
  \/ LMSetPhraseReplacementEnabled
  \/ LMSetExternalConverterEnabled

LMSpec == LMInit /\ [][LMNext]_vars

\* The rows looked up for the key, user phrases first, without those whose
\* value is excluded, each value rewritten by the replacement map and then
\* by the converter when the switch of each is on.
Survivors(lm, key) ==
  LET excludedValues == SeqValues(RowsOf(lm.m_excludedPhrases, key))
      Kept(u) == u.value \notin excludedValues
      Replaced(v) == IF lm.m_phraseReplacementEnabled
                     THEN PhraseReplacementMap(v) ELSE v
      Converted(v) == IF lm.m_externalConverterEnabled
                      THEN ExternalConverter(v) ELSE v
      Rewritten(kept) ==
        [i \in 1..Len(kept) |->
           U(Converted(Replaced(kept[i].value)), kept[i].score)]
  IN Rewritten(SelectSeq(RowsOf(lm.m_userPhrases, key)
                           \o RowsOf(lm.m_languageModel, key), Kept))

\* The place of the first row of rows with the value v.
FirstWith(rows, v) ==
  CHOOSE i \in 1..Len(rows) :
    /\ rows[i].value = v
    /\ \A j \in 1..(i - 1) : rows[j].value # v

\* C25: unigramsForKey returns the user-phrase and primary unigrams of the
\* key without the entries whose value is excluded, the values rewritten
\* by phrase replacement and then by the external converter when each is
\* enabled; no two returned unigrams have the same value, each returned
\* unigram is the first surviving row with its value, and the returned
\* unigrams are in the order of the lookup.
C25_UnigramsFilteredInOrder ==
  op.name = "unigramsForKey" =>
    LET rows == Survivors(op.lm, op.key)
    IN /\ \A i, j \in 1..Len(ret) : ret[i].value = ret[j].value => i = j
       /\ SeqValues(ret) = SeqValues(rows)
       /\ \A i \in 1..Len(ret) : ret[i] = rows[FirstWith(rows, ret[i].value)]
       /\ \A i, j \in 1..Len(ret) :
            i < j => FirstWith(rows, ret[i].value) < FirstWith(rows, ret[j].value)

\* C25 witness: a lookup on a model with both switches on, "ha" excluded
\* and the rows ha, hb, hc: ha is dropped, hb is replaced by ha and
\* converted to hc, and the row hc is dropped as a duplicate.
C25_OneUnigramLeft ==
  /\ op.name = "unigramsForKey"
  /\ op.key = <<SH>>
  /\ op.lm.m_phraseReplacementEnabled
  /\ op.lm.m_externalConverterEnabled
  /\ op.lm.m_excludedPhrases = LMTable(<<U(<<"ha">>, 0)>>)
  /\ op.lm.m_userPhrases = <<>>
  /\ op.lm.m_languageModel =
       LMTable(<<U(<<"ha">>, -1000000), U(<<"hb">>, -2000000),
                 U(<<"hc">>, -3000000)>>)
  /\ ret = <<U(<<"hc">>, -2000000)>>

\* The keys typed into the reading buffer.
KeysIn(rd) == Cardinality({i \in 1..3 : rd[i] # ""})

\* C26: with a non-empty reading, Enter, a cursor key, Delete and a
\* punctuation key (the punctuation-list key included) are absorbed with
\* exactly one error, and reading, grid, cursor and walk stay as they were:
\* no phrase is added and only Inputting states are emitted.  BackSpace
\* takes exactly one key off the reading, without an error, and leaves the
\* grid, the cursor and the walk as they were.
C26_ActiveReadingRejects ==
  [][(/\ op'.name = "handle"
      /\ steps' = steps + 1
      /\ ~IsEmptyReading(reading)) =>
       IF op'.key \in {"Return", "Delete", "grave"} \cup CursorKeys
                        \cup PunctuationKeys
       THEN /\ ret' = "true"
            /\ errors' = 1
            /\ UNCHANGED <<reading, readings, cursor, nodes, walked>>
            /\ added' = <<>>
            /\ \A i \in 1..Len(emitted') : emitted'[i].tag = "Inputting"
       ELSE IF op'.key = "BackSpace"
       THEN /\ ret' = "true"
            /\ errors' = 0
            /\ KeysIn(reading') = KeysIn(reading) - 1
            /\ \A i \in 1..3 : reading'[i] \in {reading[i], ""}
            /\ UNCHANGED <<readings, cursor, nodes, walked>>
       ELSE TRUE]_vars

\* C26 witness: Enter on an active reading over a grid was refused with an
\* error, the reading and the grid still there.
C26_EnterRefused ==
  /\ op.name = "handle"
  /\ op.key = "Return"
  /\ ret = "true"
  /\ errors = 1
  /\ ~IsEmptyReading(reading)
  /\ Len(readings) > 0
  /\ emitted = <<state>>
  /\ state.tag = "Inputting"

\* C27 as stated: whenever a state is emitted or an operation has
\* returned, the walked path is the walk of the grid as it is, and after
\* reset it is empty.
C27_WalkedIsWalkOfGrid ==
  ret # "crash" =>
    /\ walked = Walk(nodes, Len(readings))
    /\ op.name = "reset" => walked = <<>>

\* The unigram scores of the candidate in the nodes that cross or end at
\* the position.
ScoresOfCandidateAt(position, candidate) ==
  UNION {{Candidates(nodes[id])[i].score :
            i \in {j \in 1..Len(Candidates(nodes[id])) :
                     Candidates(nodes[id])[j].value = candidate}} :
           id \in NodesOver(position)}

\* C28: candidateSelected that returns has pinned once, at the candidate
\* position, and has called observe() exactly when the pinned node scores
\* the chosen candidate above -8.0: once, with the position of the pin and
\* the candidate; without the call the override model is as it was.  No
\* other operation calls observe() or changes the override model.
C28_ObservedAboveFloor ==
  [][steps' = steps + 1 =>
       IF op'.name = "candidateSelected"
       THEN ret' = "void" =>
              /\ pinned' = <<[position |-> CandidatePosition,
                              value |-> op'.candidate]>>
              /\ IF \E score \in ScoresOfCandidateAt(CandidatePosition,
                                                     op'.candidate) :
                      score > -8000000
                 THEN observed' = pinned'
                 ELSE observed' = <<>> /\ uom' = uom
       ELSE observed' = <<>> /\ uom' = uom]_vars

\* C28 witness: a candidate scoring -4.0 was selected and the override
\* model has taken the observation.
C28_ObservationRecorded ==
  /\ op.name = "candidateSelected"
  /\ op.candidate = <<"si">>
  /\ ret = "void"
  /\ observed = pinned
  /\ Len(observed) = 1
  /\ uom # <<>>
  /\ uom[1].value = <<"si">>

\* The nodes after the step are those of base, or those of base with one of
\* the values selected in the nodes over the position that hold it, at a
\* score above the highest unigram score of every node over the position,
\* and nothing else changed.
SoftBias(base, values, position) ==
  LET Over(id) == id[1] < position /\ position <= id[1] + id[2]
  IN \/ nodes' = base
     \/ /\ DOMAIN nodes' = DOMAIN base
        /\ \E v \in values :
             \A id \in DOMAIN base :
               IF Over(id) /\ v[1] \in SeqValues(Candidates(base[id]))
               THEN /\ Candidates(nodes'[id]) = Candidates(base[id])
                    /\ CurrentValue(nodes'[id]) = v[1]
                    /\ \A j \in {x \in DOMAIN base : Over(x)} :
                         nodes'[id].score > HighestUnigramScore(base[j])
               ELSE nodes'[id] = base[id]

\* C29: handle() never pins a candidate.  When it composes a reading the
\* model knows, the grid after the call is the grid after the insertion
\* and the walk, unchanged when the override model has no suggestion for
\* the context, and otherwise unchanged or with the suggested value
\* selected in the nodes over the candidate position at a score strictly
\* above the highest unigram score of every node over that position.
C29_SuggestionIsSoftBias ==
  [][(op'.name = "handle" /\ steps' = steps + 1) =>
       /\ pinned' = <<>>
       /\ ComposesSupported =>
            \E o \in InsertAndWalk(SyllableOf(reading, op'.key)) :
              /\ o.readings = readings'
              /\ o.walked = walked'
              /\ SoftBias(o.nodes,
                          Suggestions(uom, Context(o.walked, o.nodes, cursor'))
                            \ {<<>>},
                          ActualCandidateCursorIndex(cursor', Len(readings'),
                                                     selAfter))]_vars

\* C29 witness: a composed reading took the suggestion "si": a node holds
\* it as its selection at the score kEpsilon above 0, and nothing was
\* pinned.
C29_SuggestionApplied ==
  /\ op.name = "handle"
  /\ op.key = "4"
  /\ ret = "true"
  /\ pinned = <<>>
  /\ \E id \in DOMAIN nodes :
       /\ CurrentValue(nodes[id]) = <<"si">>
       /\ nodes[id].score = kEpsilon

\* C30 as stated: a state emitted by handle() agrees with what the
\* handler holds when the call returns: with Empty, EmptyIgnoringPrevious
\* or Committing the reading and the grid are both empty, and with
\* Inputting, Marking or ChoosingCandidate one of them is not.
C30_VariantAgreesWithEmptiness ==
  [][(op'.name = "handle" /\ steps' = steps + 1) =>
       \A i \in 1..Len(emitted') :
         IF emitted'[i].tag \in {"Inputting", "Marking", "ChoosingCandidate"}
         THEN ~IsEmptyReading(reading') \/ readings' # <<>>
         ELSE IsEmptyReading(reading') /\ readings' = <<>>]_vars

\* C31 as stated: every Marking state emitted has its start index and the
\* grid cursor within the grid and different from each other, as many
\* marked readings as the two are apart, whichever is larger, and a
\* composing buffer that is head, marked text and tail in a row.
C31_MarkingWellFormed ==
  \A i \in 1..Len(emitted) :
    emitted[i].tag = "Marking" =>
      LET start == emitted[i].markStartGridCursorIndex
      IN /\ start \in 0..Len(readings)
         /\ cursor \in 0..Len(readings)
         /\ start # cursor
         /\ Len(emitted[i].reading) =
              IF cursor > start THEN cursor - start ELSE start - cursor
         /\ emitted[i].head \o emitted[i].markedText \o emitted[i].tail
              = emitted[i].composingBuffer

\* C32 as stated: no selection dies; while the candidate list is up, each
\* candidate on it is held by a node at the position a selection would pin
\* at, whatever calls were made since the list was built; and over a
\* non-empty grid that position is within [1, length] and the list is not
\* empty.
C32_SelectionFindsNode ==
  /\ ret # "crash"
  /\ state.tag = "ChoosingCandidate" =>
       \A i \in 1..Len(state.candidates) :
         FixedNodeAnchor(nodes, Len(readings), CandidatePosition,
                         state.candidates[i]) # <<>>
  /\ Len(readings) > 0 =>
       /\ CandidatePosition \in 1..Len(readings)
       /\ state.tag = "ChoosingCandidate" => state.candidates # <<>>

\* C33: a selection that returns with moveCursorAfterSelection_ set leaves
\* the cursor at the end of the node of the new walked path that covers
\* the candidate position; with the flag clear the cursor stays where it
\* was.
C33_CursorAfterSelection ==
  [][(SelectionStep /\ ret' = "void") =>
       IF moveAfter
       THEN \E i \in 1..Len(walked') :
              /\ walked'[i].loc < CandidatePosition
              /\ CandidatePosition <= walked'[i].loc + walked'[i].len
              /\ cursor' = walked'[i].loc + walked'[i].len
       ELSE cursor' = cursor]_vars

\* C33 witness: with the flag set and candidates before the cursor, a
\* selection moved the cursor past the position of the pin, to the end of
\* a walked node of more than one reading.
C33_CursorMovedToNodeEnd ==
  /\ op.name = "candidateSelected"
  /\ ret = "void"
  /\ moveAfter
  /\ ~selAfter
  /\ pinned # <<>>
  /\ pinned[1].position < cursor
  /\ \E i \in 1..Len(walked) :
       /\ walked[i].len > 1
       /\ walked[i].loc < pinned[1].position
       /\ cursor = walked[i].loc + walked[i].len

\* What BackSpace has left to remove: the keys of the reading and the
\* readings of the grid.
LeftToRemove(rd, rs) == KeysIn(rd) + Len(rs)

\* C34 as stated: in a non-empty state with the cursor at the end of the
\* grid, each BackSpace is absorbed without an error, takes exactly one
\* off the keys of the reading plus the readings of the grid, leaves the
\* cursor at the end of the grid, and emits Inputting while something is
\* left and EmptyIgnoringPrevious when nothing is; so pressing BackSpace
\* alone reaches EmptyIgnoringPrevious.
C34_BackspaceCountsDown ==
  [][(/\ op'.name = "handle"
      /\ steps' = steps + 1
      /\ op'.key = "BackSpace"
      /\ IsNotEmptyState(state)
      /\ cursor = Len(readings)) =>
       /\ ret' = "true"
       /\ errors' = 0
       /\ LeftToRemove(reading', readings') = LeftToRemove(reading, readings) - 1
       /\ cursor' = Len(readings')
       /\ Len(emitted') = 1
       /\ emitted'[1].tag = IF LeftToRemove(reading', readings') = 0
                            THEN "EmptyIgnoringPrevious" ELSE "Inputting"]_vars

====
